---- MODULE Spec2Model ----
(***************************************************************************)
(* A model of the brainfuck interpreter of src/src/lib.rs (the library the *)
(* enum_version binary runs): Token::from_char, Interpreter::parse with    *)
(* its scope stack and run-length folding, Interpreter::optimize, the      *)
(* Memory tape primitives and the tree-walking Expr::run_effect.           *)
(*                                                                         *)
(* Representation choices:                                                 *)
(*  - a cell is a u8, kept as a number 0..255 (CellMod = 256);             *)
(*  - the pointer is a usize.  A value that wrapped below 0 is kept as the *)
(*    negative number p standing for 2^64 + p, so that `pointer < 1`,      *)
(*    index checks and carries out of 2^64 are decided as the machine      *)
(*    decides them;                                                        *)
(*  - overflow_checks is the build profile: Rust's `+`, `-`, `+=`, `-=`    *)
(*    panic on overflow when it is TRUE (debug) and wrap when it is FALSE  *)
(*    (release);                                                           *)
(*  - the tape of vec![0; 30000] is scaled down to MemSize cells;          *)
(*  - a run length is a u32 and the optimizer's offset an i32; the model   *)
(*    holds counts up to I32Max and decides i32 overflow exactly;          *)
(*  - stdout is the byte stream the Memory writes (the timing line that    *)
(*    run prints is not part of it).                                       *)
(* The InfiniteLoop node of the Parser variant (src/src/parser.rs) is      *)
(* modelled next to it, for the walk of single scope nodes (SpecInf).      *)
(***************************************************************************)
EXTENDS Integers, Sequences, FiniteSets, TLC

\* ---------------------------------------------------------------- bounds
MemSize == 4          \* cells of the tape (stands for the 30000 of Memory::new)
MaxLen == 4           \* every source text of at most MaxLen characters is run
MaxInput == 2         \* bytes the input stream can deliver before end of input
MaxOut == 70          \* Output instructions a run of the model may execute
MaxPasses == 512      \* passes of one loop the reference execution follows

\* ------------------------------------------------------ program constants
CellMod == 256        \* u8 cells
I32Max == 2147483647  \* the largest i32 (offset, o, v)
FlushAt == 64         \* output_cell flushes at this buffer length

\* --------------------------------------------------------------- helpers
Rep(c, n) == [j \in 1..n |-> c]

Last(s) == s[Len(s)]

Front(s) == SubSeq(s, 1, Len(s) - 1)

\* ------------------------------------------------------------ Token (lexer)
Chars == {"+", "-", "<", ">", ".", ",", "[", "]", "x"}

\* from_char that takes the letter x for a `.`.
from_char_x_is_dot(c) ==
    CASE c = "+" -> "Plus"
      [] c = "-" -> "Minus"
      [] c = "<" -> "Left"
      [] c = ">" -> "Right"
      [] c = "." \/ c = "x" -> "Dot"
      [] c = "," -> "Comma"
      [] c = "[" -> "BracketOpen"
      [] c = "]" -> "BracketClose"
      [] OTHER -> "Ignore"

from_char(c) ==
    CASE c = "+" -> "Plus"
      [] c = "-" -> "Minus"
      [] c = "<" -> "Left"
      [] c = ">" -> "Right"
      [] c = "." -> "Dot"
      [] c = "," -> "Comma"
      [] c = "[" -> "BracketOpen"
      [] c = "]" -> "BracketClose"
      [] OTHER -> "Ignore"

\* --------------------------------------------------------------- Expr nodes
IncrementCount(n) == [op |-> "IncrementCount", n |-> n]
DecrementCount(n) == [op |-> "DecrementCount", n |-> n]
MoveRightCount(n) == [op |-> "MoveRightCount", n |-> n]
MoveLeftCount(n) == [op |-> "MoveLeftCount", n |-> n]
Loop(exprs, one_time) == [op |-> "Loop", exprs |-> exprs, one_time |-> one_time]
Input == [op |-> "Input"]
Output == [op |-> "Output"]
MakeZero == [op |-> "MakeZero"]
JumpOut(e) == [op |-> "JumpOut", e |-> e]
OffsetOp(o, v) == [op |-> "OffsetOp", o |-> o, v |-> v]
OffsetMakeZeroOp(o, v) == [op |-> "OffsetMakeZeroOp", o |-> o, v |-> v]

\* The result of a process::exit(1) inside optimize.
Exit(msg) == [op |-> "Exit", msg |-> msg]

IsArith(e) == e.op \in {"IncrementCount", "DecrementCount"}
IsMove(e) == e.op \in {"MoveLeftCount", "MoveRightCount"}

\* ------------------------------------------------------- i32 arithmetic
\* The counts of the model are u32 values up to I32Max, for which `n as i32`
\* is n itself.  a + b in i32 (b may be negative): whether it overflows, and
\* the value it wraps to in a build without overflow checks.
add_i32_overflows(a, b) ==
    \/ b > 0 /\ a > I32Max - b
    \/ b < 0 /\ a < (0 - I32Max - 1) - b

add_i32(a, b) ==
    IF b > 0 /\ a > I32Max - b THEN (a - I32Max - 1) + (b - I32Max - 1)
    ELSE IF b < 0 /\ a < (0 - I32Max - 1) - b THEN (a + I32Max + 1) + (b + I32Max + 1)
    ELSE a + b

\* ------------------------------------------------- Interpreter::optimize
NoMatch == [op |-> "NoMatch"]

\* The `for e in exprs.iter()` scan of the `3..` arm: the i32 sum of the
\* moves, given up (jump_out) at the first node that is no arithmetic or move.
\* `offset -= ..` and `offset += ..` panic on overflow in a build that checks.
RECURSIVE scan_offset(_, _, _, _)
scan_offset(exprs, k, offset, oc) ==
    IF k > Len(exprs) THEN [jump_out |-> FALSE, offset |-> offset, err |-> "none"]
    ELSE LET e == exprs[k]
             d == IF e.op = "MoveLeftCount" THEN 0 - e.n ELSE e.n
         IN  CASE IsMove(e) ->
                    IF oc /\ add_i32_overflows(offset, d)
                    THEN [jump_out |-> FALSE, offset |-> offset,
                          err |-> IF e.op = "MoveLeftCount"
                                  THEN "attempt to subtract with overflow"
                                  ELSE "attempt to add with overflow"]
                    ELSE scan_offset(exprs, k + 1, add_i32(offset, d), oc)
               [] IsArith(e) -> scan_offset(exprs, k + 1, offset, oc)
               [] OTHER -> [jump_out |-> TRUE, offset |-> offset, err |-> "none"]

\* The match on the window exprs[i..i+3] of the fusion scan.
window_op(a, b, c) ==
    CASE a.op = "MoveLeftCount" /\ b.op = "DecrementCount" /\ c.op = "MoveRightCount"
            /\ a.n = c.n -> OffsetOp(0 - a.n, 0 - b.n)
      [] a.op = "MoveLeftCount" /\ b.op = "IncrementCount" /\ c.op = "MoveRightCount"
            /\ a.n = c.n -> OffsetOp(0 - a.n, b.n)
      [] a.op = "MoveRightCount" /\ b.op = "DecrementCount" /\ c.op = "MoveLeftCount"
            /\ a.n = c.n -> OffsetOp(a.n, 0 - b.n)
      [] a.op = "MoveRightCount" /\ b.op = "IncrementCount" /\ c.op = "MoveLeftCount"
            /\ a.n = c.n -> OffsetOp(a.n, b.n)
      [] OTHER -> NoMatch

\* splice that replaces four elements.
splice_four(exprs, i, op) ==
    SubSeq(exprs, 1, i - 1) \o <<op>> \o SubSeq(exprs, i + 4, Len(exprs))

\* exprs.splice(i..i + 3, [op]) with i counted from 1.
splice(exprs, i, op) ==
    SubSeq(exprs, 1, i - 1) \o <<op>> \o SubSeq(exprs, i + 3, Len(exprs))

\* fuse_scan that, after a replacement, advances as if the sequence had kept
\* its length.
RECURSIVE fuse_scan_stale_index(_, _, _)
fuse_scan_stale_index(exprs, i, matched) ==
    IF i + 2 > Len(exprs) THEN [exprs |-> exprs, matched |-> matched]
    ELSE LET op == window_op(exprs[i], exprs[i + 1], exprs[i + 2]) IN
         IF op = NoMatch THEN fuse_scan_stale_index(exprs, i + 1, matched)
         ELSE fuse_scan_stale_index(splice(exprs, i, op), i + 3, TRUE)

\* One `while i + 2 < exprs.len()` scan; i is the 1-based window start.
RECURSIVE fuse_scan(_, _, _)
fuse_scan(exprs, i, matched) ==
    IF i + 2 > Len(exprs) THEN [exprs |-> exprs, matched |-> matched]
    ELSE LET op == window_op(exprs[i], exprs[i + 1], exprs[i + 2]) IN
         IF op = NoMatch THEN fuse_scan(exprs, i + 1, matched)
         ELSE fuse_scan(splice(exprs, i, op), i + 1, TRUE)

\* The `0 | 1` arm.
optimize_single(exprs) ==
    IF Len(exprs) = 0 THEN Exit("Infinite loop")
    ELSE LET e == exprs[1] IN
         CASE IsArith(e) -> MakeZero
           [] IsMove(e) -> JumpOut(e)
           [] OTHER -> Exit("Infinite loop of IO operations detected")

\* The `2` arm.
optimize_pair(exprs) ==
    CASE exprs[1] = DecrementCount(1) /\ exprs[2].op = "OffsetOp"
            -> OffsetMakeZeroOp(exprs[2].o, exprs[2].v)
      [] exprs[1].op = "OffsetOp" /\ exprs[2] = DecrementCount(1)
            -> OffsetMakeZeroOp(exprs[1].o, exprs[1].v)
      [] OTHER -> Loop(exprs, FALSE)

\* optimize whose `3..` arm goes to the fusion scan without the test of
\* `!jump_out && offset == 0`.
RECURSIVE optimize_fuse_first(_, _)
optimize_fuse_first(exprs, oc) ==
    IF Len(exprs) <= 1 THEN optimize_single(exprs)
    ELSE IF Len(exprs) = 2 THEN optimize_pair(exprs)
    ELSE LET s == scan_offset(exprs, 1, 0, oc) IN
         IF s.err # "none" THEN Exit(s.err)
         ELSE LET r == fuse_scan(exprs, 1, FALSE) IN
              IF r.matched THEN optimize_fuse_first(r.exprs, oc) ELSE Loop(r.exprs, FALSE)

\* optimize whose `3..` arm returns the Loop without the fusion scan.
optimize_unfused(exprs, oc) ==
    IF Len(exprs) <= 1 THEN optimize_single(exprs)
    ELSE IF Len(exprs) = 2 THEN optimize_pair(exprs)
    ELSE LET s == scan_offset(exprs, 1, 0, oc) IN
         IF s.err # "none" THEN Exit(s.err)
         ELSE IF ~s.jump_out /\ s.offset = 0 THEN Loop(exprs, TRUE)
         ELSE Loop(exprs, FALSE)

\* optimize in the build oc: the node for the scope body exprs, or the Exit
\* that stands for process::exit(1) or for an overflow panic.
RECURSIVE optimize(_, _)
optimize(exprs, oc) ==
    IF Len(exprs) <= 1 THEN optimize_single(exprs)
    ELSE IF Len(exprs) = 2 THEN optimize_pair(exprs)
    ELSE LET s == scan_offset(exprs, 1, 0, oc) IN
         IF s.err # "none" THEN Exit(s.err)
         ELSE IF ~s.jump_out /\ s.offset = 0 THEN Loop(exprs, TRUE)
         ELSE LET r == fuse_scan(exprs, 1, FALSE) IN
              IF r.matched THEN optimize(r.exprs, oc) ELSE Loop(r.exprs, FALSE)

\* ---------------------------------------------------- Interpreter::parse
\* fold that opens a new unit node for every command.
fold_no_merge(current_exprs, opname) == Append(current_exprs, [op |-> opname, n |-> 1])

\* fold that also merges into a counted node lying behind the last node.
fold_across(current_exprs, opname) ==
    LET len == Len(current_exprs) IN
    IF len >= 2 /\ current_exprs[len].op # opname /\ current_exprs[len - 1].op = opname
    THEN [current_exprs EXCEPT ![len - 1].n = @ + 1]
    ELSE IF current_exprs # <<>> /\ Last(current_exprs).op = opname
    THEN [current_exprs EXCEPT ![len].n = @ + 1]
    ELSE Append(current_exprs, [op |-> opname, n |-> 1])

\* `match current_exprs.last_mut()` of the four counted tokens.
fold(current_exprs, opname) ==
    IF current_exprs # <<>> /\ Last(current_exprs).op = opname
    THEN [current_exprs EXCEPT ![Len(current_exprs)].n = @ + 1]
    ELSE Append(current_exprs, [op |-> opname, n |-> 1])

\* The parser's state: the scope stack, the accumulator and the fatal error
\* (with the index a panic reports) that ended it, if any.
ParseState(loop_stack, current_exprs, err, index) ==
    [loop_stack |-> loop_stack, current_exprs |-> current_exprs,
     err |-> err, index |-> index]

ParseInit == ParseState(<<>>, <<>>, "none", -1)

\* An arm of a counted token.
counted(st, opname) == [st EXCEPT !.current_exprs = fold(st.current_exprs, opname)]

\* parse_char that passes over a `]` met with the scope stack empty.
parse_char_lenient(st, i, c, oc) ==
    LET tok == from_char(c)
        cur == st.current_exprs
    IN  CASE tok = "Plus" -> counted(st, "IncrementCount")
          [] tok = "Minus" -> counted(st, "DecrementCount")
          [] tok = "Right" -> counted(st, "MoveRightCount")
          [] tok = "Left" -> counted(st, "MoveLeftCount")
          [] tok = "Dot" -> [st EXCEPT !.current_exprs = Append(cur, Output)]
          [] tok = "Comma" -> [st EXCEPT !.current_exprs = Append(cur, Input)]
          [] tok = "BracketOpen" ->
                ParseState(Append(st.loop_stack, cur), <<>>, "none", -1)
          [] tok = "BracketClose" ->
                IF st.loop_stack = <<>> THEN st
                ELSE LET exps == optimize(cur, oc) IN
                     IF exps.op = "Exit"
                     THEN [st EXCEPT !.err = exps.msg,
                                     !.loop_stack = Front(st.loop_stack),
                                     !.current_exprs = Last(st.loop_stack)]
                     ELSE ParseState(Front(st.loop_stack),
                                     Append(Last(st.loop_stack), exps), "none", -1)
          [] OTHER -> st

\* parse_char that optimizes the finished body before it pops the scope stack.
parse_char_optimize_first(st, i, c, oc) ==
    LET tok == from_char(c)
        cur == st.current_exprs
    IN  CASE tok = "Plus" -> counted(st, "IncrementCount")
          [] tok = "Minus" -> counted(st, "DecrementCount")
          [] tok = "Right" -> counted(st, "MoveRightCount")
          [] tok = "Left" -> counted(st, "MoveLeftCount")
          [] tok = "Dot" -> [st EXCEPT !.current_exprs = Append(cur, Output)]
          [] tok = "Comma" -> [st EXCEPT !.current_exprs = Append(cur, Input)]
          [] tok = "BracketOpen" ->
                ParseState(Append(st.loop_stack, cur), <<>>, "none", -1)
          [] tok = "BracketClose" ->
                LET exps == optimize(cur, oc) IN
                IF exps.op = "Exit" THEN [st EXCEPT !.err = exps.msg]
                ELSE IF st.loop_stack = <<>>
                THEN [st EXCEPT !.err = "Unmatched closing bracket", !.index = i]
                ELSE ParseState(Front(st.loop_stack),
                                Append(Last(st.loop_stack), exps), "none", -1)
          [] OTHER -> st

\* The body of `for (i, c) in self.source.chars().enumerate()`.
parse_char(st, i, c, oc) ==
    LET tok == from_char(c)
        cur == st.current_exprs
    IN  CASE tok = "Plus" -> counted(st, "IncrementCount")
          [] tok = "Minus" -> counted(st, "DecrementCount")
          [] tok = "Right" -> counted(st, "MoveRightCount")
          [] tok = "Left" -> counted(st, "MoveLeftCount")
          [] tok = "Dot" -> [st EXCEPT !.current_exprs = Append(cur, Output)]
          [] tok = "Comma" -> [st EXCEPT !.current_exprs = Append(cur, Input)]
          [] tok = "BracketOpen" ->
                ParseState(Append(st.loop_stack, cur), <<>>, "none", -1)
          [] tok = "BracketClose" ->
                IF st.loop_stack = <<>>
                THEN [st EXCEPT !.err = "Unmatched closing bracket", !.index = i]
                ELSE LET exps == optimize(cur, oc) IN
                     IF exps.op = "Exit"
                     THEN [st EXCEPT !.err = exps.msg,
                                     !.loop_stack = Front(st.loop_stack),
                                     !.current_exprs = Last(st.loop_stack)]
                     ELSE ParseState(Front(st.loop_stack),
                                     Append(Last(st.loop_stack), exps), "none", -1)
          [] OTHER -> st

\* parse_end without the check of the scope stack.
parse_end_unchecked(st) == st

\* The check after the loop.
parse_end(st) ==
    IF st.loop_stack # <<>> THEN [st EXCEPT !.err = "Unmatched opening bracket"]
    ELSE st

StructuralErrors ==
    {"Unmatched closing bracket", "Unmatched opening bracket", "Infinite loop",
     "Infinite loop of IO operations detected"}

\* ------------------------------------------------------------------ Memory
\* Memory::new.
MemoryNew ==
    [cells |-> [a \in 0..(MemSize - 1) |-> 0], pointer |-> 0, output_buffer |-> <<>>]

\* The outcome of a primitive: the memory it leaves, or the panic that ends
\* the process (err) with the memory as it was.
Ok(m) == [err |-> "none", mem |-> m]
Panic(e, m) == [err |-> e, mem |-> m]

\* cells[idx] is a checked index.
InBounds(idx) == idx >= 0 /\ idx < MemSize

\* increment_cell with saturating_add in place of wrapping_add.
increment_cell_saturating(m, c) ==
    IF ~InBounds(m.pointer) THEN Panic("index out of bounds", m)
    ELSE Ok([m EXCEPT !.cells[m.pointer] =
                 IF @ + (c % CellMod) >= CellMod THEN CellMod - 1 ELSE @ + (c % CellMod)])

increment_cell(m, c) ==
    IF ~InBounds(m.pointer) THEN Panic("index out of bounds", m)
    ELSE Ok([m EXCEPT !.cells[m.pointer] = (@ + (c % CellMod)) % CellMod])

decrement_cell(m, c) ==
    IF ~InBounds(m.pointer) THEN Panic("index out of bounds", m)
    ELSE Ok([m EXCEPT !.cells[m.pointer] = (@ - (c % CellMod)) % CellMod])

\* `self.pointer += c as usize`: no bound is checked; the sum carries out of
\* usize only from a pointer that had wrapped below 0.
move_pointer_right(m, c, oc) ==
    IF m.pointer < 0 /\ m.pointer + c >= 0 /\ oc
    THEN Panic("attempt to add with overflow", m)
    ELSE Ok([m EXCEPT !.pointer = @ + c])

\* `if self.pointer < 1 { panic!(..) } self.pointer -= c as usize`.
move_pointer_left(m, c, oc) ==
    IF m.pointer = 0 THEN Panic("Pointer underflow", m)
    ELSE IF m.pointer > 0 /\ m.pointer - c < 0 /\ oc
    THEN Panic("attempt to subtract with overflow", m)
    ELSE Ok([m EXCEPT !.pointer = @ - c])

\* `cells[idx] += d` on u8: a checked index, then an addition that panics in
\* a build with overflow checks.
add_assign_cell(m, idx, d, oc) ==
    IF ~InBounds(idx) THEN Panic("index out of bounds", m)
    ELSE IF m.cells[idx] + d >= CellMod /\ oc
    THEN Panic("attempt to add with overflow", m)
    ELSE Ok([m EXCEPT !.cells[idx] = (@ + d) % CellMod])

\* Expr::MakeZero.
make_zero(m) ==
    IF ~InBounds(m.pointer) THEN Panic("index out of bounds", m)
    ELSE Ok([m EXCEPT !.cells[m.pointer] = 0])

\* Expr::OffsetOp { o, v }.
offset_op(m, o, v, oc) == add_assign_cell(m, m.pointer + o, v % CellMod, oc)

\* Expr::OffsetMakeZeroOp { o, v }.
offset_make_zero_op(m, o, v, oc) ==
    IF ~InBounds(m.pointer) THEN Panic("index out of bounds", m)
    ELSE LET current_value == m.cells[m.pointer] IN
         IF current_value = 0 THEN Ok(m)
         ELSE add_assign_cell([m EXCEPT !.cells[m.pointer] = 0], m.pointer + o,
                              ((v % CellMod) * current_value) % CellMod, oc)

\* flush that clears the buffer without writing it.
flush_discard(m, out) == [mem |-> [m EXCEPT !.output_buffer = <<>>], stdout |-> out]

\* Memory::flush, on the memory and the bytes written to standard output.
flush(m, out) ==
    IF m.output_buffer # <<>>
    THEN [mem |-> [m EXCEPT !.output_buffer = <<>>], stdout |-> out \o m.output_buffer]
    ELSE [mem |-> m, stdout |-> out]

\* Memory::output_cell.
output_cell(m, out) ==
    IF ~InBounds(m.pointer) THEN [err |-> "index out of bounds", mem |-> m, stdout |-> out]
    ELSE LET pushed == [m EXCEPT !.output_buffer = Append(@, m.cells[m.pointer])]
             f == IF Len(pushed.output_buffer) >= FlushAt THEN flush(pushed, out)
                  ELSE [mem |-> pushed, stdout |-> out]
         IN  [err |-> "none", mem |-> f.mem, stdout |-> f.stdout]

\* input_cell that keeps the low seven bits of the byte.
input_cell_seven_bits(m, byte) ==
    IF ~InBounds(m.pointer) THEN Panic("index out of bounds", m)
    ELSE Ok([m EXCEPT !.cells[m.pointer] = byte % 128])

\* Memory::input_cell with the byte read_exact delivered.
input_cell(m, byte) ==
    IF ~InBounds(m.pointer) THEN Panic("index out of bounds", m)
    ELSE Ok([m EXCEPT !.cells[m.pointer] = byte])

\* mul_effect with the increments left unscaled.
mul_effect_unscaled_inc(m, e, times, oc) ==
    CASE e.op = "IncrementCount" -> increment_cell(m, e.n)
      [] e.op = "DecrementCount" -> decrement_cell(m, e.n * times)
      [] e.op = "MoveLeftCount" -> move_pointer_left(m, e.n, oc)
      [] e.op = "MoveRightCount" -> move_pointer_right(m, e.n, oc)
      [] OTHER -> Panic("unreachable", m)

\* mul_effect reading the cell under the pointer at each node instead of times.
mul_effect_reread(m, e, times, oc) ==
    CASE e.op = "IncrementCount" ->
            IF InBounds(m.pointer) THEN increment_cell(m, e.n * m.cells[m.pointer])
            ELSE Panic("index out of bounds", m)
      [] e.op = "DecrementCount" ->
            IF InBounds(m.pointer) THEN decrement_cell(m, e.n * m.cells[m.pointer])
            ELSE Panic("index out of bounds", m)
      [] e.op = "MoveLeftCount" -> move_pointer_left(m, e.n, oc)
      [] e.op = "MoveRightCount" -> move_pointer_right(m, e.n, oc)
      [] OTHER -> Panic("unreachable", m)

\* `*count * times` overflows u32: count > (2^32 - 1) \div times, the
\* quotient computed from I32Max = (2^32 - 2) \div 2.
mul_u32_overflows(count, times) ==
    /\ times > 1
    /\ count > 2 * (I32Max \div times) + (2 * (I32Max % times) + 1) \div times

\* An arm of the inner match of a one_time Loop: the counts scaled by times.
\* The u32 product is cut to u8 by the primitive, so that its low byte,
\* ((count mod 256) * times) mod 256, is all that reaches the cell.
mul_effect(m, e, times, oc) ==
    IF IsArith(e) /\ oc /\ mul_u32_overflows(e.n, times)
    THEN Panic("attempt to multiply with overflow", m)
    ELSE CASE e.op = "IncrementCount" -> increment_cell(m, (e.n % CellMod) * times)
           [] e.op = "DecrementCount" -> decrement_cell(m, (e.n % CellMod) * times)
           [] e.op = "MoveLeftCount" -> move_pointer_left(m, e.n, oc)
           [] e.op = "MoveRightCount" -> move_pointer_right(m, e.n, oc)
           [] OTHER -> Panic("unreachable", m)

\* The arms of Expr::run_effect that neither loop nor do I/O.
simple_effect(m, e, oc) ==
    CASE e.op = "IncrementCount" -> increment_cell(m, e.n)
      [] e.op = "DecrementCount" -> decrement_cell(m, e.n)
      [] e.op = "MoveRightCount" -> move_pointer_right(m, e.n, oc)
      [] e.op = "MoveLeftCount" -> move_pointer_left(m, e.n, oc)
      [] e.op = "MakeZero" -> make_zero(m)
      [] e.op = "OffsetOp" -> offset_op(m, e.o, e.v, oc)
      [] e.op = "OffsetMakeZeroOp" -> offset_make_zero_op(m, e.o, e.v, oc)

IsSimple(e) ==
    e.op \in {"IncrementCount", "DecrementCount", "MoveRightCount", "MoveLeftCount",
              "MakeZero", "OffsetOp", "OffsetMakeZeroOp"}

\* ------------------------------------------------------------ source texts
Concat(a, b) == a \o b

\* `+` a times, `[->`, `+` b times, `<]`.
MultiplySource(a, b) ==
    Rep("+", a) \o <<"[", "-", ">">> \o Rep("+", b) \o <<"<", "]">>

MultiplyA == {0, 1, 4, 16, 255, 256, 257}
MultiplyB == {1, 2, 17}

MultiplySources == {MultiplySource(a, b) : a \in MultiplyA, b \in MultiplyB}

ShortSources == UNION {[1..n -> Chars] : n \in 0..MaxLen}

\* Longer programs, one for each shape the optimizer and the executor treat
\* differently.
Scenarios ==
    { <<"+", "+", "[", ".", "-", "]">>,                       \* Generic loop, two passes
      <<"-", "[", ".", "-", "]">>,                            \* 255 passes: fills the buffer
      <<"+", "[", ".", ".", "]">>,                            \* endless output
      <<"+", "[", ",", ".", "]">>,                            \* echo until a zero byte
      <<"+", ">", "+", ">", "+", "[", "<", "]">>,             \* JumpOut to the left edge
      <<">", "+", "<", "+", "[", ">", "]", "<", "<", "<">>,   \* scan right, then walk off
      <<"+", "[", ">", "+", "<", ".", "-", "]">>,             \* fusion to OffsetOp
      <<"+", "+", "[", ">", "-", "<", ".", "-", "]">>,        \* OffsetOp with a negative delta
      <<"+", "[", "[", "-", "]", "]">>,                       \* single nested-scope node
      <<"+", "[", "[", "-", "]", ".", "]">>,                  \* nested scope in a Generic loop
      <<"+", ">", "[", "<", "<", ">", ">", "-", "]">>,        \* one_time body leaving the tape
      <<">", "+", "[", "<", "<", "+", ">", ">", "-", "]">>,   \* one_time body, folded move at 1
      <<"+", "[", ">", ">", ">", ">", "+", "<", "<", "<", "<", "-", "]">>,
      <<">", ">", ">", ">", ">", "<", "<", "<", "<", "<", "<">>,
      <<"[", "]">>, <<"+", "[", "]">>, <<",", ".", "[">>, <<"+", ".", "x", "]">>,
      <<"+", ".", ",", "[", ".", "]">>, <<",", "[", ",", "]">>,
      <<".", "[", "[", "]", "]">>,
      <<"+", "[", "[", "-", "]", ">", "+", "<", "]">>,        \* nested scope, then a fusion
      <<"+", "[", ">", "+", "<", "[", "-", "]", ".", "]">>,   \* fusion, then a nested scope
      <<"+", "[", "+", ">", "+", "<", "]">>,                  \* neutral body that adds to its gate
      <<"+", "[", ">", "+", "<", "]">>,                       \* neutral body that leaves its gate
      <<"-", "[", ">", "-", "<", ".", "-", "]">>,             \* OffsetOp adding 255 twice
      <<"+", " ", "+", "a", "[", "-", "\n", "]">>,            \* ignored characters in the text
      <<",", "[", ".", ",", "]">>,                            \* cat
      <<"+", "[", "-", "]", "+">> }                           \* a scope between two runs

Sources == ShortSources \cup Scenarios \cup MultiplySources

InputBytes == {0, 65, 255}

\* The echo program, which is run on every byte.
EchoSource == <<",", ".">>

\* ------------------------------------------------------------------- state
VARIABLES
    source,           \* Interpreter.source, as a sequence of characters
    overflow_checks,  \* the build profile (TRUE: overflow panics; FALSE: it wraps)
    phase,            \* "parse", "exec", "done" or "failed"
    i,                \* the enumerate() index of the next character
    loop_stack,       \* parse's loop_stack
    current_exprs,    \* parse's current_exprs
    exprs,            \* Interpreter.exprs
    memory,           \* the Memory of run
    stdout,           \* the bytes written to standard output
    stdin_read,       \* the bytes read from standard input
    stack,            \* the executor's call stack: a frame for each sequence being walked
    start,            \* the Memory the walk started from
    err,              \* the panic or exit that ended the process, "none" before
    err_index         \* the index reported with it, -1 if none

vars == <<source, overflow_checks, phase, i, loop_stack, current_exprs, exprs,
          memory, stdout, stdin_read, stack, start, err, err_index>>

parse_vars == <<i, loop_stack, current_exprs, exprs>>
io_vars == <<stdout, stdin_read>>

\* A frame: the sequence walked, the 1-based position in it, and what walks
\* it: run's for_each ("top"), a `while` pass of a Loop ("loop") or the
\* single scaled pass of a one_time Loop ("mul", with times).
Frame(es, kind, times) == [exprs |-> es, pc |-> 1, kind |-> kind, times |-> times]

Init ==
    /\ source \in Sources
    /\ overflow_checks \in BOOLEAN
    /\ phase = "parse"
    /\ i = 0
    /\ loop_stack = <<>>
    /\ current_exprs = <<>>
    /\ exprs = <<>>
    /\ memory = MemoryNew
    /\ stdout = <<>>
    /\ stdin_read = <<>>
    /\ stack = <<>>
    /\ start = MemoryNew
    /\ err = "none"
    /\ err_index = -1

\* ------------------------------------------------------------------- parse
\* One iteration of parse's loop over the characters.
ParseChar ==
    /\ phase = "parse"
    /\ i < Len(source)
    /\ LET st == parse_char(ParseState(loop_stack, current_exprs, "none", -1),
                            i, source[i + 1], overflow_checks)
       IN  /\ loop_stack' = st.loop_stack
           /\ current_exprs' = st.current_exprs
           /\ err' = st.err
           /\ err_index' = st.index
           /\ phase' = IF st.err = "none" THEN "parse" ELSE "failed"
    /\ i' = i + 1
    /\ UNCHANGED <<source, overflow_checks, exprs, memory, stdout, stdin_read, stack, start>>

\* The end of parse and, in run, Memory::new and the start of the walk.
ParseEnd ==
    /\ phase = "parse"
    /\ i = Len(source)
    /\ LET st == parse_end(ParseState(loop_stack, current_exprs, "none", -1))
       IN  IF st.err # "none"
           THEN /\ phase' = "failed"
                /\ err' = st.err
                /\ UNCHANGED <<exprs, memory, stack>>
           ELSE /\ phase' = "exec"
                /\ exprs' = current_exprs
                /\ memory' = MemoryNew
                /\ stack' = <<Frame(current_exprs, "top", 0)>>
                /\ err' = "none"
    /\ UNCHANGED <<source, overflow_checks, i, loop_stack, current_exprs,
                   stdout, stdin_read, start, err_index>>

\* ----------------------------------------------------------------- execute
Top == stack[Len(stack)]
AtInstr == phase = "exec" /\ Top.pc <= Len(Top.exprs)
Cur == Top.exprs[Top.pc]
Advance(stk) == [stk EXCEPT ![Len(stk)].pc = @ + 1]

\* A panic: the process ends, nothing more is written.
Fail(e) ==
    /\ phase' = "failed"
    /\ err' = e
    /\ UNCHANGED <<memory, stdout, stdin_read, stack>>

\* The outcome r of a primitive applied as the current instruction.
Apply(r, stk) ==
    IF r.err = "none"
    THEN /\ memory' = r.mem
         /\ stack' = stk
         /\ UNCHANGED <<phase, err, stdout, stdin_read>>
    ELSE Fail(r.err)

exec_frame == <<source, overflow_checks, parse_vars, start, err_index>>

\* Increment, Decrement, MoveRight, MoveLeft, MakeZero, OffsetOp, OffsetMakeZeroOp.
ExecSimple ==
    /\ AtInstr
    /\ Top.kind # "mul"
    /\ IsSimple(Cur)
    /\ Apply(simple_effect(memory, Cur, overflow_checks), Advance(stack))
    /\ UNCHANGED exec_frame

\* One element of the for_each of a one_time Loop.
ExecMul ==
    /\ AtInstr
    /\ Top.kind = "mul"
    /\ Apply(mul_effect(memory, Cur, Top.times, overflow_checks), Advance(stack))
    /\ UNCHANGED exec_frame

\* Expr::Output.
ExecOutput ==
    /\ AtInstr
    /\ Top.kind # "mul"
    /\ Cur.op = "Output"
    /\ Len(stdout) + Len(memory.output_buffer) < MaxOut
    /\ LET r == output_cell(memory, stdout) IN
       IF r.err = "none"
       THEN /\ memory' = r.mem
            /\ stdout' = r.stdout
            /\ stack' = Advance(stack)
            /\ UNCHANGED <<phase, err, stdin_read>>
       ELSE Fail(r.err)
    /\ UNCHANGED exec_frame

\* ExecInput that stores 0 at end of input and goes on.
ExecInput_eof_zero ==
    /\ AtInstr
    /\ Top.kind # "mul"
    /\ Cur.op = "Input"
    /\ \E byte \in InputBytes \cup {-1} :
          /\ byte # -1 => Len(stdin_read) < MaxInput
          /\ LET r == input_cell(memory, IF byte = -1 THEN 0 ELSE byte) IN
             IF r.err = "none"
             THEN /\ memory' = r.mem
                  /\ stdin_read' = IF byte = -1 THEN stdin_read ELSE Append(stdin_read, byte)
                  /\ stack' = Advance(stack)
                  /\ UNCHANGED <<phase, err, stdout>>
             ELSE /\ phase' = "failed"
                  /\ err' = r.err
                  /\ UNCHANGED <<memory, stdout, stack, stdin_read>>
    /\ UNCHANGED exec_frame

\* Expr::Input: read_exact delivers a byte, or fails at end of input.
ExecInput ==
    /\ AtInstr
    /\ Top.kind # "mul"
    /\ Cur.op = "Input"
    /\ \/ \E byte \in (IF source = EchoSource THEN 0..(CellMod - 1) ELSE InputBytes) :
            /\ Len(stdin_read) < MaxInput
            /\ LET r == input_cell(memory, byte) IN
               IF r.err = "none"
               THEN /\ memory' = r.mem
                    /\ stdin_read' = Append(stdin_read, byte)
                    /\ stack' = Advance(stack)
                    /\ UNCHANGED <<phase, err, stdout>>
               ELSE /\ phase' = "failed"
                    /\ err' = r.err
                    /\ stdin_read' = Append(stdin_read, byte)
                    /\ UNCHANGED <<memory, stdout, stack>>
       \/ Fail("failed to fill whole buffer")
    /\ UNCHANGED exec_frame

\* ExecLoop that runs the body once before the first test (do-while).
ExecLoop_body_first ==
    /\ AtInstr
    /\ Top.kind # "mul"
    /\ Cur.op = "Loop"
    /\ stack' = Append(stack, Frame(Cur.exprs, IF Cur.one_time THEN "mul" ELSE "loop",
                                    IF Cur.one_time /\ InBounds(memory.pointer)
                                    THEN memory.cells[memory.pointer] ELSE 0))
    /\ UNCHANGED <<phase, err, memory, stdout, stdin_read>>
    /\ UNCHANGED exec_frame

\* Expr::Loop: the test of `while memory.val() != 0`, or of the one_time guard.
ExecLoop ==
    /\ AtInstr
    /\ Top.kind # "mul"
    /\ Cur.op = "Loop"
    /\ IF ~InBounds(memory.pointer) THEN Fail("index out of bounds")
       ELSE /\ stack' =
                 IF memory.cells[memory.pointer] = 0 THEN Advance(stack)
                 ELSE Append(stack, Frame(Cur.exprs, IF Cur.one_time THEN "mul" ELSE "loop",
                                          IF Cur.one_time THEN memory.cells[memory.pointer]
                                          ELSE 0))
            /\ UNCHANGED <<phase, err, memory, stdout, stdin_read>>
    /\ UNCHANGED exec_frame

\* ExecJumpOut that moves by one cell whatever the count of its move.
ExecJumpOut_unit_step ==
    /\ AtInstr
    /\ Top.kind # "mul"
    /\ Cur.op = "JumpOut"
    /\ IF ~InBounds(memory.pointer) THEN Fail("index out of bounds")
       ELSE IF memory.cells[memory.pointer] = 0
       THEN /\ stack' = Advance(stack)
            /\ UNCHANGED <<phase, err, memory, stdout, stdin_read>>
       ELSE Apply(CASE Cur.e.op = "MoveLeftCount" ->
                           move_pointer_left(memory, 1, overflow_checks)
                    [] Cur.e.op = "MoveRightCount" ->
                           move_pointer_right(memory, 1, overflow_checks)
                    [] OTHER -> Panic("unreachable", memory),
                  stack)
    /\ UNCHANGED exec_frame

\* Expr::JumpOut: one test of its `while`, and the move if the cell is nonzero.
ExecJumpOut ==
    /\ AtInstr
    /\ Top.kind # "mul"
    /\ Cur.op = "JumpOut"
    /\ IF ~InBounds(memory.pointer) THEN Fail("index out of bounds")
       ELSE IF memory.cells[memory.pointer] = 0
       THEN /\ stack' = Advance(stack)
            /\ UNCHANGED <<phase, err, memory, stdout, stdin_read>>
       ELSE Apply(CASE Cur.e.op = "MoveLeftCount" ->
                           move_pointer_left(memory, Cur.e.n, overflow_checks)
                    [] Cur.e.op = "MoveRightCount" ->
                           move_pointer_right(memory, Cur.e.n, overflow_checks)
                    [] OTHER -> Panic("unreachable", memory),
                  stack)
    /\ UNCHANGED exec_frame

\* The end of a body: a one_time Loop is over; a Loop goes back to its test.
ExecEndBody ==
    /\ phase = "exec"
    /\ Len(stack) > 1
    /\ Top.pc > Len(Top.exprs)
    /\ stack' = IF Top.kind = "mul" THEN Advance(Front(stack)) ELSE Front(stack)
    /\ UNCHANGED <<phase, err, memory, stdout, stdin_read>>
    /\ UNCHANGED exec_frame

\* The end of run: memory.flush().
Finish ==
    /\ phase = "exec"
    /\ Len(stack) = 1
    /\ Top.pc > Len(Top.exprs)
    /\ LET f == flush(memory, stdout) IN
       /\ memory' = f.mem
       /\ stdout' = f.stdout
    /\ phase' = "done"
    /\ UNCHANGED <<err, stdin_read, stack>>
    /\ UNCHANGED exec_frame

Next ==
    \/ ParseChar
    \/ ParseEnd
    \/ ExecSimple
    \/ ExecMul
    \/ ExecOutput
    \/ ExecInput
    \/ ExecLoop
    \/ ExecJumpOut
    \/ ExecEndBody
    \/ Finish

Spec == Init /\ [][Next]_vars

TypeOK ==
    /\ phase \in {"parse", "exec", "done", "failed"}
    /\ memory.cells \in [0..(MemSize - 1) -> 0..(CellMod - 1)]
    /\ Len(memory.output_buffer) < FlushAt

\* --------------------------------------------- reference (unit) semantics
\* A sequence of loop-free, I/O-free nodes applied in order by run_effect;
\* the first panic ends it.  (The inner set binds r to the outcome, so that
\* it is computed once.)
RECURSIVE run_seq(_, _, _, _)
run_seq(m, es, k, oc) ==
    IF k > Len(es) THEN Ok(m)
    ELSE CHOOSE x \in { IF r.err # "none" THEN r ELSE run_seq(r.mem, es, k + 1, oc) :
                        r \in {simple_effect(m, es[k], oc)} } : TRUE

\* The body es run exactly n times: n \div 2 times, then the rest.
RECURSIVE run_times(_, _, _, _)
run_times(m, es, n, oc) ==
    IF n = 0 THEN Ok(m)
    ELSE IF n = 1 THEN run_seq(m, es, 1, oc)
    ELSE CHOOSE x \in { IF r.err # "none" THEN r
                        ELSE run_times(r.mem, es, n - (n \div 2), oc) :
                        r \in {run_times(m, es, n \div 2, oc)} } : TRUE

\* Every pointer value a pass of es takes from m lies on the tape.
RECURSIVE stays_in_range(_, _, _, _)
stays_in_range(m, es, k, oc) ==
    /\ InBounds(m.pointer)
    /\ \/ k > Len(es)
       \/ LET r == simple_effect(m, es[k], oc) IN
          r.err = "none" /\ stays_in_range(r.mem, es, k + 1, oc)

\* ------------------------------------- the walk of a given tree (no parse)
\* The walk of `tree` from memory m, as run starts it after parse.
TreeInit(tree, m) ==
    /\ source = <<>>
    /\ phase = "exec"
    /\ i = 0
    /\ loop_stack = <<>>
    /\ current_exprs = tree
    /\ exprs = tree
    /\ memory = m
    /\ start = m
    /\ stdout = <<>>
    /\ stdin_read = <<>>
    /\ stack = <<Frame(tree, "top", 0)>>
    /\ err = "none"
    /\ err_index = -1

\* A tape holding k under the pointer p and a fixed nonzero pattern elsewhere.
OtherCell(a) == (77 * a + 5) % CellMod

Tape(p, k) ==
    [cells |-> [a \in 0..(MemSize - 1) |-> IF a = p THEN k ELSE OtherCell(a)],
     pointer |-> p, output_buffer |-> <<>>]

\* ------------------------------------------------ one_time (multiply) loops
MaxBody == 3          \* nodes in an enumerated loop body

BodyCounts == {1, 2}

BodyNodes ==
    {IncrementCount(n) : n \in BodyCounts} \cup {DecrementCount(n) : n \in BodyCounts}
    \cup {MoveLeftCount(n) : n \in BodyCounts} \cup {MoveRightCount(n) : n \in BodyCounts}

\* parse folds a run into one node: no two neighbours are the same variant.
Folded(b) == \A j \in 1..(Len(b) - 1) : b[j].op # b[j + 1].op

\* Some longer bodies, among them that of `[->++<]`.
LongBodies ==
    { <<DecrementCount(1), MoveRightCount(1), IncrementCount(2), MoveLeftCount(1)>>,
      <<MoveRightCount(2), IncrementCount(3), MoveLeftCount(1), DecrementCount(2),
        MoveLeftCount(1), DecrementCount(1)>>,
      <<IncrementCount(255), MoveLeftCount(1), MoveRightCount(1), DecrementCount(1)>> }

\* The bodies optimize marks one_time: three nodes or more, arithmetic and
\* moves only, the moves summing to zero.
MulBodies ==
    {b \in UNION {[1..n -> BodyNodes] : n \in 3..MaxBody} :
        Folded(b) /\ scan_offset(b, 1, 0, FALSE).offset = 0}
    \cup LongBodies

\* Every gating value for the long bodies, these for the enumerated ones.
SampleK == {0, 1, 2, 3, 128, 255}

InitMul ==
    /\ overflow_checks \in BOOLEAN
    /\ \E b \in MulBodies, p \in 0..(MemSize - 1), k \in 0..(CellMod - 1) :
          /\ b \in LongBodies \/ k \in SampleK
          /\ TreeInit(<<Loop(b, TRUE)>>, Tape(p, k))

NextMul == ExecLoop \/ ExecMul \/ ExecEndBody \/ Finish

SpecMul == InitMul /\ [][NextMul]_vars

\* ---------------------------------------------------------------- claim C1
\* The body of the one_time Loop being walked and the gating value k it found.
MulBody == exprs[1].exprs
MulK == start.cells[start.pointer]

\* C1: for a body of arithmetic and move nodes with move sum zero, whatever
\* the gating value k and the tape, if the moves of a pass stay on the tape
\* then the one_time walk ends normally with the cells and the pointer that
\* running the body exactly k times with wrapping arithmetic leaves.
C1_MultiplyOnceEquivalence ==
    (phase \in {"done", "failed"}
        /\ (MulK = 0 \/ stays_in_range(start, MulBody, 1, overflow_checks)))
    => /\ phase = "done"
       /\ LET ref == run_times(start, MulBody, MulK, overflow_checks) IN
          /\ ref.err = "none"
          /\ memory.cells = ref.mem.cells
          /\ memory.pointer = ref.mem.pointer

\* A one_time walk that ended after scaling past the cell width and moving.
C1_Witness ==
    /\ phase = "done"
    /\ MulK = 200
    /\ MulBody = <<DecrementCount(1), MoveRightCount(1), IncrementCount(2),
                   MoveLeftCount(1)>>
    /\ start.pointer = 1
    /\ memory.cells[2] = (OtherCell(2) + 400) % CellMod
    /\ memory.cells[1] = 0

\* ---------------------------------------------------------------- claim C2
\* C2: the whole pipeline on `+` a times, `[->`, `+` b times, `<]` never
\* fails and never stops before the end of run, writes nothing, and ends
\* with cell 0 at 0, cell 1 at (a * b) mod 256, every other cell at 0 and the
\* pointer at 0; `++++[->++<]` (a = 4, b = 2) leaves 8 in cell 1.
C2_MultiplyScenario ==
    \A a \in MultiplyA, b \in MultiplyB :
        source = MultiplySource(a, b) =>
            /\ phase # "failed"
            /\ phase # "done" => ENABLED Next
            /\ phase = "done" =>
                  /\ memory.pointer = 0
                  /\ stdout = <<>>
                  /\ memory.output_buffer = <<>>
                  /\ \A c \in 0..(MemSize - 1) :
                        memory.cells[c] = IF c = 1 THEN (a * b) % CellMod ELSE 0
                  /\ (a = 4 /\ b = 2) => memory.cells[1] = 8

\* The run of sixteen `+` and a body of seventeen ended: 272 wrapped to 16.
C2_Witness ==
    /\ source = MultiplySource(16, 17)
    /\ phase = "done"
    /\ memory.cells[1] = 16
    /\ memory.cells[0] = 0

\* --------------------------------------------- single-arithmetic-node loops
\* Steps coprime to the cell modulus.
OddSteps == {1, 3, 255}

ZeroBodies ==
    {<<IncrementCount(n)>> : n \in OddSteps} \cup {<<DecrementCount(n)>> : n \in OddSteps}

\* The loop `while val() != 0 { body }` of a single arithmetic node, walked
\* as the Generic Loop it is before optimize replaces it.
InitZero ==
    /\ overflow_checks \in BOOLEAN
    /\ \E b \in ZeroBodies, v \in 0..(CellMod - 1) :
          TreeInit(<<Loop(b, FALSE)>>, Tape(1, v))

NextZero == ExecLoop \/ ExecSimple \/ ExecEndBody \/ Finish

\* The walk is a sequential program: it takes its next step while it has one.
SpecZero == InitZero /\ [][NextZero]_vars /\ WF_vars(NextZero)

\* ---------------------------------------------------------------- claim C3
ZeroBody == exprs[1].exprs

\* C3: for every cell value v and every odd step n, the loop that applies
\* Increment(n) or Decrement(n) while the cell is nonzero comes to an end, and
\* the node optimize emits for that body (MakeZero) leaves the memory that loop
\* leaves: the current cell 0, the pointer and every other cell as they were.
C3_MakeZeroEquivalence ==
    <>(/\ phase = "done"
       /\ optimize(ZeroBody, overflow_checks) = MakeZero
       /\ Ok(memory) = simple_effect(start, optimize(ZeroBody, overflow_checks), overflow_checks)
       /\ memory.pointer = start.pointer
       /\ \A c \in 0..(MemSize - 1) :
             memory.cells[c] = IF c = start.pointer THEN 0 ELSE start.cells[c])

\* The loop over Increment(3) from 1 ended: it took 85 passes to reach 256.
C3_Witness ==
    /\ phase = "done"
    /\ ZeroBody = <<IncrementCount(3)>>
    /\ start.cells[start.pointer] = 1
    /\ memory.cells[memory.pointer] = 0

\* ---------------------------------------------------------------- claim C4
BracketFree(src) == \A j \in 1..Len(src) : src[j] \in {"+", "-", "<", ">"}

\* The unit operation of one character.
UnitNode(c) ==
    CASE c = "+" -> IncrementCount(1)
      [] c = "-" -> DecrementCount(1)
      [] c = "<" -> MoveLeftCount(1)
      [] c = ">" -> MoveRightCount(1)

\* Each character of src applied as a separate unit operation, in order.
UnitRun(src, oc) == run_seq(MemoryNew, [j \in 1..Len(src) |-> UnitNode(src[j])], 1, oc)

\* C4 (as claimed): for a source made of + - < > only, the run of the folded
\* sequence ends as the unit operations applied one by one end: with the same
\* cells and pointer, or both with a fatal error.
C4_FoldingPreservesSemantics ==
    (BracketFree(source) /\ phase \in {"done", "failed"})
    => LET ref == UnitRun(source, overflow_checks) IN
       IF ref.err # "none" THEN phase = "failed"
       ELSE /\ phase = "done"
            /\ memory.cells = ref.mem.cells
            /\ memory.pointer = ref.mem.pointer

\* ---------------------------------------------------------------- claim C5
\* The count of the MoveLeft the next step of the walk executes, 0 if it
\* executes none.
PendingMoveLeft ==
    IF ~AtInstr THEN 0
    ELSE IF Cur.op = "MoveLeftCount" THEN Cur.n
    ELSE IF Top.kind # "mul" /\ Cur.op = "JumpOut" /\ Cur.e.op = "MoveLeftCount"
            /\ InBounds(memory.pointer) /\ memory.cells[memory.pointer] # 0
    THEN Cur.e.n
    ELSE 0

\* C5 (as claimed): a MoveLeft whose count exceeds the pointer, at top level,
\* folded, in a JumpOut or in a one_time body, ends the run with a fatal
\* error, and the pointer never takes a wrapped-around value.
C5_UnderflowDetected ==
    [][/\ PendingMoveLeft > memory.pointer => phase' = "failed"
       /\ memory'.pointer >= 0]_vars

\* ---------------------------------------------------------------- claim C6
\* C6 (as claimed): while the run has not failed the pointer (one that did
\* not wrap below 0) is less than the tape length: a MoveRight past the last
\* cell fails when it executes, and no run ends normally with the pointer
\* out of range.
C6_PointerBelowTapeEnd ==
    (phase \in {"exec", "done"} /\ memory.pointer >= 0) => memory.pointer < MemSize

\* ------------------------------------------------- the brackets of a text
Count(src, c, n) == Cardinality({j \in 1..n : src[j] = c})

\* Opening minus closing brackets among the first n characters.
Depth(src, n) == Count(src, "[", n) - Count(src, "]", n)

Positions(src, c) == {j \in 1..Len(src) : src[j] = c}

\* The 0-based position of the first `]` that closes no scope, -1 if none.
FirstUnmatchedClose(src) ==
    LET bad == {j \in Positions(src, "]") : Depth(src, j) < 0} IN
    IF bad = {} THEN -1 ELSE (CHOOSE j \in bad : \A h \in bad : j <= h) - 1

\* src[p] .. src[q] is a bracket pair holding nothing but ignored characters
\* and exactly `io` Input/Output characters.
IoScope(src, p, q, io) ==
    /\ \A j \in (p + 1)..(q - 1) : src[j] \in {".", ","} \/ from_char(src[j]) = "Ignore"
    /\ Cardinality({j \in (p + 1)..(q - 1) : src[j] \in {".", ","}}) = io

\* The text holds a structural error: an unmatched bracket, an empty loop
\* body or a loop body of a single Input or Output.
HasStructuralError(src) ==
    \/ Depth(src, Len(src)) > 0
    \/ FirstUnmatchedClose(src) >= 0
    \/ \E p \in Positions(src, "["), q \in Positions(src, "]") :
          p < q /\ (IoScope(src, p, q, 0) \/ IoScope(src, p, q, 1))

\* ---------------------------------------------------------------- claim C7
\* C7: when the source holds a structural error anywhere, or the build has
\* reported one, the run never leaves the build: it goes on parsing until it
\* fails there, and no byte is read, none is buffered or written, and the
\* pointer and the cells are those of a fresh tape.
C7_StructuralErrorsPrecedeExecution ==
    (HasStructuralError(source) \/ err \in StructuralErrors)
    => /\ phase \in {"parse", "failed"}
       /\ phase = "parse" => ENABLED (ParseChar \/ ParseEnd)
       /\ phase = "failed" => err \in StructuralErrors
       /\ memory = MemoryNew
       /\ stdout = <<>>
       /\ stdin_read = <<>>
       /\ stack = <<>>

\* `+.,[.]` failed in the optimizer, after three executable instructions.
C7_Witness ==
    /\ source = <<"+", ".", ",", "[", ".", "]">>
    /\ phase = "failed"
    /\ err = "Infinite loop of IO operations detected"
    /\ memory = MemoryNew
    /\ stdout = <<>>

\* ---------------------------------------------------------------- claim C8
\* C8: when parse reaches the end of the input without an earlier fatal
\* error, it fails with the unmatched-opening-bracket error if more `[` than
\* `]` were read (the scope stack, as deep as their difference, is not empty);
\* otherwise the accumulator becomes the top-level sequence.  `[` fails so.
C8_UnmatchedOpeningBracket ==
    /\ phase = "parse" => Len(loop_stack) = Depth(source, i)
    /\ (phase # "parse"
          /\ err \notin {"Unmatched closing bracket", "Infinite loop",
                         "Infinite loop of IO operations detected"})
       => /\ i = Len(source)
          /\ IF Depth(source, Len(source)) > 0
             THEN /\ phase = "failed"
                  /\ err = "Unmatched opening bracket"
                  /\ loop_stack # <<>>
             ELSE /\ err # "Unmatched opening bracket"
                  /\ loop_stack = <<>>
                  /\ exprs = current_exprs
    /\ (source = <<"[">> /\ phase # "parse")
       => (phase = "failed" /\ err = "Unmatched opening bracket")

\* `+[[-` failed at the end of the input with two scopes open.
C8_Witness ==
    /\ source = <<"+", "[", "[", "-">>
    /\ phase = "failed"
    /\ err = "Unmatched opening bracket"
    /\ Len(loop_stack) = 2

\* ---------------------------------------------------------------- claim C9
\* C9: parse fails with the unmatched-closing-bracket error at the first `]`
\* it meets with the scope stack empty and at no other place; the index it
\* reports is the 0-based position of that `]` in the text, ignored
\* characters counted (0 for `]`); and that `]` is never reported as an empty
\* loop, though the accumulator it would close may be empty.
C9_UnmatchedClosingBracket ==
    LET q == FirstUnmatchedClose(source) IN
    /\ err = "Unmatched closing bracket"
       => (phase = "failed" /\ q >= 0 /\ err_index = q /\ source[q + 1] = "]"
           /\ i = q + 1)
    /\ (q >= 0 /\ i > q)
       => (phase = "failed" /\ err = "Unmatched closing bracket" /\ err_index = q)
    /\ (source = <<"]">> /\ i = 1)
       => (err = "Unmatched closing bracket" /\ err_index = 0)

\* `x+]`: the `]` is the third character, and the second command.
C9_Witness ==
    /\ source = <<"x", "+", "]">>
    /\ phase = "failed"
    /\ err = "Unmatched closing bracket"
    /\ err_index = 2

\* --------------------------------------------------------------- claim C10
\* The step about to be taken closes a scope: optimize runs on current_exprs.
ClosingScope ==
    /\ phase = "parse"
    /\ i < Len(source)
    /\ source[i + 1] = "]"
    /\ loop_stack # <<>>

\* C10 (as claimed): optimize ends the process when, and only when, the body
\* is empty or a single Input or Output; every other body, a single node of a
\* nested scope included, yields a node.
C10_OptimizerFailureModes ==
    [][ClosingScope
        => /\ phase' = "failed"
              <=> (current_exprs = <<>> \/ current_exprs = <<Input>>
                   \/ current_exprs = <<Output>>)
           /\ phase' # "failed"
              => /\ Len(current_exprs') = Len(Last(loop_stack)) + 1
                 /\ Last(current_exprs').op # "Exit"]_vars

\* --------------------------------------------------------------- claim C11
\* The step executes an Output instruction to its end.
OutputStep ==
    /\ phase = "exec"
    /\ AtInstr
    /\ Top.kind # "mul"
    /\ Cur.op = "Output"
    /\ phase' # "failed"

\* The bytes written to standard output, then the bytes still buffered.
Emitted == stdout \o memory.output_buffer

\* C11: every step leaves (written bytes, then buffered bytes) as it was,
\* except a completed Output, which appends the value of the current cell;
\* the buffer holds fewer than 64 bytes after each Output; and a run that
\* ends normally ends with an empty buffer.  (stdout is what the Memory
\* writes; the timing line of run is not part of it.)
C11_OutputStreamContract ==
    [][/\ Emitted' = IF OutputStep THEN Append(Emitted, memory.cells[memory.pointer])
                     ELSE Emitted
       /\ OutputStep => Len(memory'.output_buffer) < FlushAt
       /\ phase' = "done" => memory'.output_buffer = <<>>]_vars

\* The 67th Output of `-[.-]`: a batch of 64 was written, three bytes wait.
C11_Witness ==
    /\ source = <<"-", "[", ".", "-", "]">>
    /\ Len(stdout) = FlushAt
    /\ stdout[1] = 255
    /\ stdout[FlushAt] = 192
    /\ memory.output_buffer = <<191, 190, 189>>

\* --------------------------------------------------------------- claim C12
\* C12: the run of `,.` reads at most one byte; it stops early only when
\* the input is empty; and once a byte b was read it ends normally with b in
\* cell 0, exactly the byte b written, the buffer empty and the pointer at 0.
C12_InputOutputEcho ==
    source = EchoSource =>
        /\ Len(stdin_read) <= 1
        /\ phase = "exec" => ENABLED Next
        /\ phase = "failed" => stdin_read = <<>> /\ err = "failed to fill whole buffer"
        /\ stdin_read # <<>> => memory.cells[0] = stdin_read[1]
        /\ phase # "done" => stdout = <<>>
        /\ phase = "done" =>
              /\ Len(stdin_read) = 1
              /\ stdout = stdin_read
              /\ memory.output_buffer = <<>>
              /\ memory.pointer = 0

\* The echo of the byte 200 ended.
C12_Witness ==
    /\ source = EchoSource
    /\ phase = "done"
    /\ stdin_read = <<200>>
    /\ stdout = <<200>>

\* ------------------------------------- the parser at the end of a scope body
\* Run lengths: short ones and the longest the model holds.
OptCounts == {1, 2, I32Max}

OptNodes ==
    {[op |-> o, n |-> n] :
        o \in {"IncrementCount", "DecrementCount", "MoveRightCount", "MoveLeftCount"},
        n \in OptCounts}
    \cup {Input, Output, MakeZero, Loop(<<Output, DecrementCount(1)>>, FALSE)}

\* Bodies whose moves add up to 2^32, to 2 - 2^32 and to I32Max.
WideBodies ==
    { <<MoveRightCount(I32Max), IncrementCount(1), MoveRightCount(I32Max),
        IncrementCount(1), MoveRightCount(2)>>,
      <<MoveLeftCount(I32Max), DecrementCount(1), MoveLeftCount(I32Max),
        DecrementCount(1), MoveLeftCount(2)>>,
      <<MoveRightCount(I32Max), IncrementCount(1), MoveRightCount(I32Max),
        DecrementCount(1), MoveLeftCount(I32Max)>> }

\* What parse can hold in current_exprs: counted neighbours differ.
OptBodies ==
    {b \in UNION {[1..n -> OptNodes] : n \in 0..3} :
        \A j \in 1..(Len(b) - 1) : b[j].op # b[j + 1].op \/ b[j].op \notin
            {"IncrementCount", "DecrementCount", "MoveRightCount", "MoveLeftCount"}}
    \cup WideBodies

\* parse in front of the `]` that closes a scope whose body it has read from
\* runs of any length; source is the text from that `]` on.
InitOpt ==
    /\ source = <<"]">>
    /\ overflow_checks \in BOOLEAN
    /\ phase = "parse"
    /\ i = 0
    /\ loop_stack = <<<<>>>>
    /\ current_exprs \in OptBodies
    /\ exprs = <<>>
    /\ memory = MemoryNew
    /\ stdout = <<>>
    /\ stdin_read = <<>>
    /\ stack = <<>>
    /\ start = MemoryNew
    /\ err = "none"
    /\ err_index = -1

NextOpt == ParseChar \/ ParseEnd

SpecOpt == InitOpt /\ [][NextOpt]_vars

\* --------------------------------------------------------------- claim C13
\* The signed sum of the move counts of exprs from k on, in base 65536: its
\* low digits ("low") or its high digits.
RECURSIVE move_sum(_, _, _)
move_sum(es, k, part) ==
    IF k > Len(es) THEN 0
    ELSE LET e == es[k]
             v == IF part = "low" THEN e.n % 65536 ELSE e.n \div 65536
         IN  (CASE e.op = "MoveRightCount" -> v
                [] e.op = "MoveLeftCount" -> 0 - v
                [] OTHER -> 0) + move_sum(es, k + 1, part)

\* The signed sum of the move counts, as an unbounded integer, is zero.
MoveSumZero(es) ==
    LET low == move_sum(es, 1, "low") IN
    /\ low % 65536 = 0
    /\ move_sum(es, 1, "high") + (low \div 65536) = 0

\* Every one_time Loop in or below the node e has the multiply shape.
RECURSIVE MultiplyShape(_)
MultiplyShape(e) ==
    e.op = "Loop" =>
        /\ e.one_time =>
              /\ \A j \in 1..Len(e.exprs) : IsArith(e.exprs[j]) \/ IsMove(e.exprs[j])
              /\ MoveSumZero(e.exprs)
        /\ \A j \in 1..Len(e.exprs) : MultiplyShape(e.exprs[j])

\* C13 (as claimed): every Loop marked one_time in what parse has built has
\* a body of Increment/Decrement/MoveLeft/MoveRight nodes only, the signed
\* sum of whose move counts, taken as an unbounded integer, is zero.
C13_MultiplyOnceShape ==
    /\ \A j \in 1..Len(current_exprs) : MultiplyShape(current_exprs[j])
    /\ \A s \in 1..Len(loop_stack) :
          \A j \in 1..Len(loop_stack[s]) : MultiplyShape(loop_stack[s][j])
    /\ \A j \in 1..Len(exprs) : MultiplyShape(exprs[j])

\* --------------------------------------------------------------- claim C14
\* The nodes a closed scope leaves in the body of the scope around it.
IsScopeNode(e) == e.op \in {"Loop", "MakeZero", "JumpOut", "OffsetMakeZeroOp"}

\* The step is parse's BracketClose arm and optimize returned a node.
ScopeClosed ==
    /\ phase = "parse"
    /\ i < Len(source)
    /\ source[i + 1] = "]"
    /\ loop_stack # <<>>
    /\ phase' = "parse"

\* C14: when optimize returns a node for a body that holds nodes of closed
\* nested scopes, the node is a Loop whose body holds exactly those nodes,
\* unchanged and in the same order, among whatever the other elements became.
C14_ScopeNodesOpaque ==
    [][(ScopeClosed /\ SelectSeq(current_exprs, IsScopeNode) # <<>>) =>
          LET node == Last(current_exprs') IN
          /\ node.op = "Loop"
          /\ SelectSeq(node.exprs, IsScopeNode) = SelectSeq(current_exprs, IsScopeNode)]_vars

\* `[>+<[-].]` was closed: the window in front of the MakeZero was fused.
C14_Witness ==
    /\ phase = "parse"
    /\ current_exprs = <<IncrementCount(1),
                         Loop(<<OffsetOp(1, 1), MakeZero, Output>>, FALSE)>>

\* --------------------------------------------------------------- claim C15
Commands == {"+", "-", "<", ">", ".", ",", "[", "]"}

IsCommand(c) == c \in Commands

\* The source with every character that is no command deleted.
Strip(src) == SelectSeq(src, IsCommand)

\* parse, from the state st in front of character k (1-based) of src.
RECURSIVE parse_from(_, _, _, _)
parse_from(src, k, st, oc) ==
    IF st.err # "none" THEN st
    ELSE IF k > Len(src) THEN parse_end(st)
    ELSE CHOOSE x \in { parse_from(src, k + 1, r, oc) :
                        r \in {parse_char(st, k - 1, src[k], oc)} } : TRUE

\* C15: a character that is no command is an Ignore token, and once parse
\* is over, what it made of the source is what it makes of the source with the
\* ignored characters deleted: the same tree, or the same fatal error (the
\* reported position apart).
C15_IgnoredCharactersTransparent ==
    /\ \A c \in (Chars \cup {" ", "a", "\n", "0", "#"}) \ Commands : from_char(c) = "Ignore"
    /\ (phase # "parse" /\ Strip(source) # source) =>
          LET ref == parse_from(Strip(source), 1, ParseInit, overflow_checks) IN
          IF ref.err = "none"
          THEN err \notin StructuralErrors /\ exprs = ref.current_exprs
          ELSE phase = "failed" /\ err = ref.err /\ exprs = <<>>

\* `+x+` was parsed to the single Increment(2) of `++`, and run.
C15_Witness ==
    /\ source = <<"+", "x", "+">>
    /\ phase = "done"
    /\ exprs = <<IncrementCount(2)>>
    /\ memory.cells[0] = 2

\* --------------------------------------------------------------- claim C16
\* The step is an Input instruction that found no byte to read.
InputAtEndOfInput ==
    /\ phase = "exec"
    /\ AtInstr
    /\ Top.kind # "mul"
    /\ Cur.op = "Input"
    /\ stdin_read' = stdin_read

\* C16: an Input instruction that finds the input at its end ends the run
\* with the read error, the cell and everything else as they were; and a
\* failed run takes no further step.
C16_EndOfInputFatal ==
    [][/\ phase # "failed"
       /\ InputAtEndOfInput =>
             /\ phase' = "failed"
             /\ err' = "failed to fill whole buffer"
             /\ memory' = memory
             /\ stdout' = stdout]_vars

\* cat after one byte: the second Input found the end of the input.
C16_Witness ==
    /\ source = <<",", "[", ".", ",", "]">>
    /\ phase = "failed"
    /\ err = "failed to fill whole buffer"
    /\ stdin_read = <<65>>
    /\ memory.cells[0] = 65
    /\ memory.output_buffer = <<65>>

\* ------------------------------------------ naive (unoptimized) execution
\* The state of the naive execution: the tape, the pointer, the bytes
\* emitted, the input still to read and how it stands ("ok", "violation" of
\* the pointer range, "eof", or "diverged": a loop not over after MaxPasses).
NaiveInit(input) ==
    [cells |-> MemoryNew.cells, pointer |-> 0, out |-> <<>>, inp |-> input,
     status |-> "ok"]

\* One character as a unit operation on wrapping 8-bit cells.
naive_unit(st, c) ==
    CASE c = "+" -> [st EXCEPT !.cells[st.pointer] = (@ + 1) % CellMod]
      [] c = "-" -> [st EXCEPT !.cells[st.pointer] = (@ - 1) % CellMod]
      [] c = ">" -> IF st.pointer + 1 >= MemSize THEN [st EXCEPT !.status = "violation"]
                    ELSE [st EXCEPT !.pointer = @ + 1]
      [] c = "<" -> IF st.pointer = 0 THEN [st EXCEPT !.status = "violation"]
                    ELSE [st EXCEPT !.pointer = @ - 1]
      [] c = "." -> [st EXCEPT !.out = Append(@, st.cells[st.pointer])]
      [] c = "," -> IF st.inp = <<>> THEN [st EXCEPT !.status = "eof"]
                    ELSE [st EXCEPT !.cells[st.pointer] = Head(st.inp), !.inp = Tail(@)]
      [] OTHER -> st

\* `[` less `]` among the characters lo..j of src.
Balance(src, lo, j) ==
    Cardinality({k \in lo..j : src[k] = "["}) - Cardinality({k \in lo..j : src[k] = "]"})

\* The `]` that closes the `[` at lo.
MatchClose(src, lo) ==
    CHOOSE j \in (lo + 1)..Len(src) :
        /\ Balance(src, lo, j) = 0
        /\ \A k \in (lo + 1)..(j - 1) : Balance(src, lo, k) # 0

RECURSIVE naive_block(_, _, _, _)
RECURSIVE naive_loop(_, _, _, _, _)

\* The characters lo..hi of src run in order from st.
naive_block(src, lo, hi, st) ==
    IF st.status # "ok" \/ lo > hi THEN st
    ELSE IF src[lo] = "["
    THEN LET j == MatchClose(src, lo) IN
         CHOOSE x \in { IF r.status = "ok" /\ r.cells[r.pointer] # 0
                        THEN [r EXCEPT !.status = "diverged"]
                        ELSE naive_block(src, j + 1, hi, r) :
                        r \in {naive_loop(src, lo + 1, j - 1, st, MaxPasses)} } : TRUE
    ELSE CHOOSE x \in { naive_block(src, lo + 1, hi, r) :
                        r \in {naive_unit(st, src[lo])} } : TRUE

\* While the current cell is nonzero, run the body lo..hi: n passes at most.
naive_loop(src, lo, hi, st, n) ==
    IF st.status # "ok" \/ st.cells[st.pointer] = 0 THEN st
    ELSE IF n = 1 THEN naive_block(src, lo, hi, st)
    ELSE CHOOSE x \in { naive_loop(src, lo, hi, r, n - (n \div 2)) :
                        r \in {naive_loop(src, lo, hi, st, n \div 2)} } : TRUE

\* --------------------------------------------------------------- claim C17
\* C17 (as claimed): when the run of an accepted source has ended and the
\* naive execution of the same text on the input the run read ends without a
\* pointer violation, the run ended normally with the cells, the pointer and
\* the output of the naive execution.
C17_OptimizationPreservesSemantics ==
    (phase \in {"done", "failed"} /\ err \notin StructuralErrors /\ Len(source) <= 16) =>
        LET nv == naive_block(source, 1, Len(source), NaiveInit(stdin_read)) IN
        nv.status = "ok" =>
            /\ phase = "done"
            /\ memory.cells = nv.cells
            /\ memory.pointer = nv.pointer
            /\ stdout = nv.out

\* --------------------------------------------------------------- claim C18
ScopeOps == {"Loop", "MakeZero", "JumpOut", "OffsetMakeZeroOp"}

\* The step ends the execution of the node of a bracket scope: the walk moves
\* past a MakeZero, an OffsetMakeZeroOp, a JumpOut or Loop whose test found
\* zero, or past the one_time Loop whose single pass is over.
ScopeNodeFinishes ==
    /\ phase = "exec"
    /\ phase' = "exec"
    /\ \/ /\ AtInstr
          /\ Top.kind # "mul"
          /\ Cur.op \in ScopeOps
          /\ stack' = Advance(stack)
       \/ /\ Len(stack) > 1
          /\ Top.pc > Len(Top.exprs)
          /\ Top.kind = "mul"

\* C18 (as claimed): right after the node of a bracket scope has finished, the
\* cell at the pointer is zero.
C18_LoopExitPostcondition ==
    [][ScopeNodeFinishes =>
          /\ InBounds(memory'.pointer)
          /\ memory'.cells[memory'.pointer] = 0]_vars

\* --------------------------------------------------------------- claim C19
\* The walk stands at a Generic Loop node.
AtGenericLoop ==
    /\ phase = "exec"
    /\ AtInstr
    /\ Top.kind # "mul"
    /\ Cur.op = "Loop"
    /\ ~Cur.one_time
    /\ InBounds(memory.pointer)

\* C19: at a Generic Loop the cell at the pointer is tested before each pass:
\* found zero (on entry or at a pass boundary) the loop is over at once, with
\* tape, pointer and output as they are; found nonzero, a pass over the body
\* starts; the end of a pass leads back to the test; and no pass ever starts
\* with the cell at the pointer zero.
C19_GenericLoopGating ==
    [][/\ (AtGenericLoop /\ memory.cells[memory.pointer] = 0) =>
             /\ stack' = Advance(stack)
             /\ memory' = memory
             /\ stdout' = stdout
       /\ (AtGenericLoop /\ memory.cells[memory.pointer] # 0) =>
             /\ stack' = Append(stack, Frame(Cur.exprs, "loop", 0))
             /\ memory' = memory
             /\ stdout' = stdout
       /\ (phase = "exec" /\ Len(stack) > 1 /\ Top.kind = "loop"
              /\ Top.pc > Len(Top.exprs)) =>
             /\ stack' = Front(stack)
             /\ memory' = memory
       /\ (phase' = "exec" /\ Top'.kind = "loop" /\ Top'.pc = 1) =>
             /\ InBounds(memory'.pointer)
             /\ memory'.cells[memory'.pointer] # 0]_vars

\* The second pass of `++[.-]` starts: the first has emitted 2, the cell is 1.
C19_Witness ==
    /\ source = <<"+", "+", "[", ".", "-", "]">>
    /\ phase = "exec"
    /\ Top.kind = "loop"
    /\ Top.pc = 1
    /\ memory.cells[0] = 1
    /\ memory.output_buffer = <<2>>

\* ------------------------------- the variant of src/src/parser.rs (Parser)
\* Expr::InfiniteLoop.
InfiniteLoop(es) == [op |-> "InfiniteLoop", exprs |-> es]

\* Parser::multiple_loop_expr_optimize: one scan of the same four windows.
\* Offset::LeftInc(x, n), LeftDec, RightInc and RightDec are kept as
\* OffsetOp(-x, n), OffsetOp(-x, -n), OffsetOp(x, n) and OffsetOp(x, -n).
multiple_loop_expr_optimize(es) ==
    IF Len(es) < 3 THEN Loop(es, FALSE)
    ELSE Loop(fuse_scan(es, 1, FALSE).exprs, FALSE)

\* Parser::single_loop_expr_optimize.
single_loop_expr_optimize(es) ==
    CASE Len(es) = 1 /\ IsArith(es[1]) -> MakeZero
      [] Len(es) = 1 /\ IsMove(es[1]) -> JumpOut(es[1])
      [] Len(es) = 1 /\ es[1].op = "Loop" -> InfiniteLoop(es)
      [] Len(es) > 1 -> multiple_loop_expr_optimize(es)
      [] OTHER -> Exit("Infinite loop of IO operations detected")

\* Parser::optimize.
parser_optimize(es) ==
    LET e == single_loop_expr_optimize(es) IN
    IF e.op = "Loop" /\ Len(e.exprs) = 2 THEN optimize_pair(e.exprs) ELSE e

\* Expr::InfiniteLoop in Expr::effect: `loop { body }`, entered without a
\* test; ExecEndBody leads back to it at the end of each pass.
ExecInfiniteLoop ==
    /\ AtInstr
    /\ Top.kind # "mul"
    /\ Cur.op = "InfiniteLoop"
    /\ stack' = Append(stack, Frame(Cur.exprs, "infinite", 0))
    /\ UNCHANGED <<phase, err, memory, stdout, stdin_read>>
    /\ UNCHANGED exec_frame

\* ------------------------------------------------ scopes met on a zero cell
ZeroGateNodes ==
    {IncrementCount(1), DecrementCount(1), MoveRightCount(1), MoveLeftCount(1),
     Output, Loop(<<Output, DecrementCount(1)>>, FALSE)}

\* Bodies as parse accumulates them: counted neighbours differ.
ZeroGateBodies ==
    {b \in UNION {[1..n -> ZeroGateNodes] : n \in 1..4} :
        \A j \in 1..(Len(b) - 1) : b[j] # b[j + 1] \/ b[j].op \in {"Output", "Loop"}}

\* The node either optimizer builds for a body it accepts.
ScopeNodes(oc) ==
    {e \in {optimize(b, oc) : b \in ZeroGateBodies}
           \cup {parser_optimize(b) : b \in ZeroGateBodies} : e.op # "Exit"}

\* The walk of one scope node, met with the cell at the pointer zero.
InitInf ==
    /\ overflow_checks \in BOOLEAN
    /\ \E e \in ScopeNodes(overflow_checks), p \in 0..(MemSize - 1) :
          TreeInit(<<e>>, Tape(p, 0))

NextInf ==
    \/ ExecSimple
    \/ ExecLoop
    \/ ExecJumpOut
    \/ ExecInfiniteLoop
    \/ ExecEndBody
    \/ Finish

\* The walk is a sequential program: it takes its next step while it has one.
SpecInf == InitInf /\ [][NextInf]_vars /\ WF_vars(NextInf)

\* --------------------------------------------------------------- claim C20
\* C20 (as claimed): the node of a bracket scope, executed while the cell at
\* the pointer is zero, comes to its end, and tape, pointer and output are
\* then as they were, whatever form the optimizer chose for the scope.
C20_ZeroGatedScopeNoOp ==
    <>(/\ phase = "done"
       /\ memory = start
       /\ stdout = <<>>)

\* ----------------------------------- OffsetMakeZeroOp against its Loop
\* SpecScatter walks one OffsetMakeZeroOp { o, v } from a tape whose gating
\* cell holds k and whose target cell, at pointer + o on the tape, holds t.
ScatterOffsets == {-2, -1, 1, 2}
ScatterDeltas == {-3, -1, 1, 2, 128}
ScatterTargets == {0, 200}

ScatterTape(p, k, a, t) ==
    [cells |-> [c \in 0..(MemSize - 1) |-> IF c = p THEN k ELSE IF c = a THEN t ELSE 0],
     pointer |-> p, output_buffer |-> <<>>]

InitScatter ==
    /\ overflow_checks \in BOOLEAN
    /\ \E o \in ScatterOffsets, d \in ScatterDeltas, p \in 0..(MemSize - 1),
          k \in 0..(CellMod - 1), t \in ScatterTargets :
          /\ InBounds(p + o)
          /\ TreeInit(<<OffsetMakeZeroOp(o, d)>>, ScatterTape(p, k, p + o, t))

NextScatter == ExecSimple \/ Finish

SpecScatter == InitScatter /\ [][NextScatter]_vars

\* The cells the claim gives for OffsetMakeZeroOp { o, d } run from m.
scatter_expected(m, o, d) ==
    LET v == m.cells[m.pointer] IN
    IF v = 0 THEN m
    ELSE [m EXCEPT !.cells[m.pointer] = 0,
                   !.cells[m.pointer + o] = (@ + d * v) % CellMod]

\* C21: for every offset o # 0, delta d and tape with pointer + o on the
\* tape, OffsetMakeZeroOp { o, d } ends in the state of the Loop with body
\* [DecrementCount(1), OffsetOp { o, d }] (in either order), which runs once
\* per unit of the gating value v: a nonzero gating cell becomes 0 and the
\* cell at pointer + o changes by d * v modulo 256; a zero gating cell
\* changes nothing; the pointer is where it was.
C21_ZeroAndScatter ==
    phase \in {"done", "failed"} =>
        LET node == exprs[1]
            v == start.cells[start.pointer]
            expected == scatter_expected(start, node.o, node.v)
        IN  /\ phase = "done"
            /\ memory = expected
            /\ run_times(start, <<DecrementCount(1), OffsetOp(node.o, node.v)>>,
                         v, overflow_checks) = Ok(expected)
            /\ run_times(start, <<OffsetOp(node.o, node.v), DecrementCount(1)>>,
                         v, overflow_checks) = Ok(expected)

\* The same statement for a build without overflow checks.
ZeroAndScatterWrapping == ~overflow_checks => C21_ZeroAndScatter

\* ------------------------------------------- OffsetOp against its triple
\* The window the fusion scan replaces by OffsetOp { o, v }.
fused_triple(e) ==
    LET n == IF e.o > 0 THEN e.o ELSE 0 - e.o
        arith == IF e.v > 0 THEN IncrementCount(e.v) ELSE DecrementCount(0 - e.v)
    IN  IF e.o > 0 THEN <<MoveRightCount(n), arith, MoveLeftCount(n)>>
        ELSE <<MoveLeftCount(n), arith, MoveRightCount(n)>>

\* The walk stands at an OffsetOp whose target index lies on the tape.
AtOffsetOp ==
    /\ AtInstr
    /\ Top.kind # "mul"
    /\ Cur.op = "OffsetOp"
    /\ InBounds(memory.pointer + Cur.o)

\* C22: an OffsetOp fused from Move(n), Increment(c) or Decrement(c), and
\* the opposite Move(n), run where its target index is on the tape, has the
\* effect of the triple: the target cell changes by +c or -c modulo 256,
\* the pointer and every other cell stay as they were.
C22_OffsetFusionPreserving ==
    [][AtOffsetOp =>
          LET t == run_seq(memory, fused_triple(Cur), 1, overflow_checks) IN
          /\ phase' = "exec"
          /\ t.err = "none"
          /\ memory' = t.mem
          /\ memory' = [memory EXCEPT !.cells[memory.pointer + Cur.o] =
                                          (@ + Cur.v) % CellMod]]_vars

\* The same statement for a build without overflow checks, from a pointer
\* that is on the tape.
OffsetFusionWrapping ==
    [][AtOffsetOp /\ ~overflow_checks /\ InBounds(memory.pointer) =>
          LET t == run_seq(memory, fused_triple(Cur), 1, overflow_checks) IN
          /\ phase' = "exec"
          /\ t.err = "none"
          /\ memory' = t.mem
          /\ memory' = [memory EXCEPT !.cells[memory.pointer + Cur.o] =
                                          (@ + Cur.v) % CellMod]]_vars

\* ------------------------------------------------------ JumpOut as a scan
\* SpecJump walks one JumpOut from every tape over JumpCells and every
\* pointer on the tape.
JumpCells == {0, 1, 255}
JumpCounts == {1, 2, 3}

JumpMoves == {MoveLeftCount(n) : n \in JumpCounts} \cup {MoveRightCount(n) : n \in JumpCounts}

InitJump ==
    /\ overflow_checks \in BOOLEAN
    /\ \E mv \in JumpMoves, cells \in [0..(MemSize - 1) -> JumpCells],
          p \in 0..(MemSize - 1) :
          TreeInit(<<JumpOut(mv)>>, [cells |-> cells, pointer |-> p, output_buffer |-> <<>>])

NextJump == ExecJumpOut \/ Finish

SpecJump == InitJump /\ [][NextJump]_vars

\* The signed step of the move inside a JumpOut.
jump_step(e) == IF e.e.op = "MoveLeftCount" THEN 0 - e.e.n ELSE e.e.n

AtJumpOut == AtInstr /\ Top.kind # "mul" /\ Cur.op = "JumpOut" /\ InBounds(memory.pointer)

\* One test of the scan: no move on a zero cell, one move (or the panic of
\* the move) on a nonzero cell; no cell and no output changes.
JumpOutStep ==
    AtJumpOut =>
        /\ memory'.cells = memory.cells
        /\ memory'.output_buffer = memory.output_buffer
        /\ stdout' = stdout
        /\ IF memory.cells[memory.pointer] = 0
           THEN memory'.pointer = memory.pointer /\ stack' = Advance(stack)
           ELSE \/ phase' = "failed" /\ memory' = memory
                \/ /\ phase' = "exec"
                   /\ memory'.pointer = memory.pointer + jump_step(Cur)
                   /\ stack' = stack

\* A finished scan stands j moves from its start, on the first zero cell.
JumpOutFinished ==
    phase = "done" =>
        /\ memory.cells = start.cells
        /\ stdout = <<>>
        /\ \E j \in 0..MemSize :
              /\ memory.pointer = start.pointer + j * jump_step(exprs[1])
              /\ InBounds(memory.pointer)
              /\ start.cells[memory.pointer] = 0
              /\ \A h \in 0..(j - 1) :
                    LET a == start.pointer + h * jump_step(exprs[1]) IN
                    InBounds(a) /\ start.cells[a] # 0

\* C23: JumpOut repeats its move while the current cell is nonzero and makes
\* no move when the cell is already zero; it never changes a cell or the
\* output; if it finishes, the pointer has moved by j * n for the smallest
\* j >= 0 such that the cell at that position is zero.
C23_JumpOutIsTapeScan == [][JumpOutStep]_vars /\ []JumpOutFinished

\* A scan to the left by two cells per move has finished one move from its
\* start, and a scan to the right by one cell has finished after two moves.
C23_Witness ==
    /\ phase = "done"
    /\ start.cells[start.pointer] # 0
    /\ \/ exprs[1] = JumpOut(MoveLeftCount(2)) /\ memory.pointer = start.pointer - 2
       \/ exprs[1] = JumpOut(MoveRightCount(1)) /\ memory.pointer = start.pointer + 2

\* ------------------------------------------------------ locality of folding
CountedChars == {"+", "-", "<", ">"}

\* The number of equal commands that end the command sequence cmds.
RECURSIVE trailing_run(_)
trailing_run(cmds) ==
    IF Len(cmds) <= 1 THEN Len(cmds)
    ELSE IF cmds[Len(cmds) - 1] # Last(cmds) THEN 1
    ELSE 1 + trailing_run(Front(cmds))

\* parse is about to read a counted command.
AtCounted == phase = "parse" /\ i < Len(source) /\ source[i + 1] \in CountedChars

\* C24: folding is strictly local.  When parse reads a counted command, the
\* node it leaves last in the accumulator has as count the length of the
\* run of that command that ends there, a run that only ignored characters
\* may interrupt: the command opens a new unit node after any other command
\* (a different counted command, `.`, `,`, `[` or `]`) and otherwise adds
\* one to the last node; nothing else in the accumulator or the scope stack
\* changes.
C24_FoldingIsLocal ==
    [][AtCounted =>
          LET c == source[i + 1]
              run == trailing_run(Strip(SubSeq(source, 1, i + 1)))
              len == Len(current_exprs)
          IN  /\ phase' = "parse"
              /\ loop_stack' = loop_stack
              /\ Last(current_exprs') = [UnitNode(c) EXCEPT !.n = run]
              /\ IF run = 1 THEN current_exprs' = Append(current_exprs, UnitNode(c))
                 ELSE /\ Len(current_exprs') = len
                      /\ Front(current_exprs') = Front(current_exprs)
                      /\ Last(current_exprs) = [UnitNode(c) EXCEPT !.n = run - 1]]_vars

\* `+[-]+` was parsed to two unit increments around the MakeZero, and `+>+`
\* to three unit nodes.
C24_Witness ==
    /\ phase = "exec"
    /\ \/ source = <<"+", "[", "-", "]", "+">>
          /\ exprs = <<IncrementCount(1), MakeZero, IncrementCount(1)>>
       \/ source = <<"+", ">", "+">>
          /\ exprs = <<IncrementCount(1), MoveRightCount(1), IncrementCount(1)>>

\* ------------------------------------------- the fusion scan on long bodies
MaxFuse == 6          \* nodes in a body of SpecFuse

FuseNodes ==
    {MoveRightCount(1), MoveLeftCount(1), MoveLeftCount(2),
     IncrementCount(1), DecrementCount(1), Output}

\* Bodies with two fusable windows and an Output, which keeps them from
\* being pointer-neutral arithmetic.
TwoWindowBodies ==
    { <<MoveRightCount(1), IncrementCount(1), MoveLeftCount(1),
        MoveRightCount(1), DecrementCount(1), MoveLeftCount(1), Output>>,
      <<Output, MoveRightCount(1), IncrementCount(1), MoveLeftCount(1),
        MoveRightCount(1), DecrementCount(1), MoveLeftCount(1)>>,
      <<MoveLeftCount(2), DecrementCount(1), MoveRightCount(1), Output,
        MoveLeftCount(1), IncrementCount(1), MoveRightCount(1)>>,
      <<MoveLeftCount(1), DecrementCount(1), MoveRightCount(1), Output,
        MoveRightCount(1), IncrementCount(1), MoveLeftCount(1)>> }

\* What parse can hold in current_exprs: neighbours differ in kind, as the
\* counted ones do.
FuseBodies ==
    {b \in UNION {[1..n -> FuseNodes] : n \in 3..MaxFuse} :
        \A j \in 1..(Len(b) - 1) : b[j].op # b[j + 1].op}
    \cup TwoWindowBodies

\* parse in front of the `]` that closes a scope with a body of FuseBodies.
InitFuse ==
    /\ source = <<"]">>
    /\ overflow_checks \in BOOLEAN
    /\ phase = "parse"
    /\ i = 0
    /\ loop_stack = <<<<>>>>
    /\ current_exprs \in FuseBodies
    /\ exprs = <<>>
    /\ memory = MemoryNew
    /\ stdout = <<>>
    /\ stdin_read = <<>>
    /\ stack = <<>>
    /\ start = MemoryNew
    /\ err = "none"
    /\ err_index = -1

NextFuse == ParseChar \/ ParseEnd

SpecFuse == InitFuse /\ [][NextFuse]_vars

\* --------------------------------------------------------------- claim C25
\* a, b, c are a move, an increment or decrement, and the opposite move of
\* the same magnitude.
FusableTriple(a, b, c) ==
    IsMove(a) /\ IsArith(b) /\ IsMove(c) /\ a.op # c.op /\ a.n = c.n

HasFusableTriple(es) ==
    \E j \in 1..(Len(es) - 2) : FusableTriple(es[j], es[j + 1], es[j + 2])

\* No Generic Loop in the tree under e holds a fusable triple.
RECURSIVE GenericLoopsFused(_)
GenericLoopsFused(e) ==
    e.op = "Loop" =>
        /\ ~e.one_time => ~HasFusableTriple(e.exprs)
        /\ \A j \in 1..Len(e.exprs) : GenericLoopsFused(e.exprs[j])

\* C25: fusion reaches a fixpoint: whenever the optimizer returns a Generic
\* Loop, its body holds no three consecutive nodes Move(n), Increment or
\* Decrement, opposite Move(n) with equal magnitudes.
C25_FusionReachesFixpoint ==
    /\ \A j \in 1..Len(current_exprs) : GenericLoopsFused(current_exprs[j])
    /\ \A j \in 1..Len(exprs) : GenericLoopsFused(exprs[j])

\* optimize returned a Generic Loop in which two windows were fused.
C25_Witness ==
    /\ phase = "parse"
    /\ i = 1
    /\ Len(current_exprs) = 1
    /\ current_exprs[1].op = "Loop"
    /\ ~current_exprs[1].one_time
    /\ Len(SelectSeq(current_exprs[1].exprs, LAMBDA e : e.op = "OffsetOp")) = 2

\* ----------------------------------------- one pass of the parser.rs scan
\* The BracketClose arm of Expr::from_tokens, with Parser::optimize.
ParserScopeClose ==
    /\ phase = "parse"
    /\ i < Len(source)
    /\ source[i + 1] = "]"
    /\ IF loop_stack = <<>>
       THEN /\ phase' = "failed"
            /\ err' = "Unmatched closing bracket"
            /\ err_index' = i
            /\ UNCHANGED <<loop_stack, current_exprs>>
       ELSE LET expr == parser_optimize(current_exprs) IN
            /\ loop_stack' = Front(loop_stack)
            /\ err_index' = -1
            /\ IF expr.op = "Exit"
               THEN /\ phase' = "failed"
                    /\ err' = expr.msg
                    /\ current_exprs' = Last(loop_stack)
               ELSE /\ phase' = "parse"
                    /\ err' = "none"
                    /\ current_exprs' = Append(Last(loop_stack), expr)
    /\ i' = i + 1
    /\ UNCHANGED <<source, overflow_checks, exprs, memory, stdout, stdin_read, stack, start>>

NextPass == ParserScopeClose \/ ParseEnd

SpecPass == InitFuse /\ [][NextPass]_vars

\* C26 as the specification states it: there are scope bodies for which one
\* left-to-right pass of the three-node window, which advances one position
\* even after a replacement, makes a replacement and leaves a fusable triple
\* unfused (bodies: those of FuseBodies and the one at hand).
C26_SinglePassIncomplete ==
    \E b \in FuseBodies \cup {current_exprs} :
        /\ Len(b) >= 3
        /\ fuse_scan(b, 1, FALSE).matched
        /\ HasFusableTriple(multiple_loop_expr_optimize(b).exprs)

\* C26, amended: one left-to-right pass of the three-node window is
\* complete.  The node Parser::optimize returns for a body of three or more
\* nodes is an OffsetMakeZeroOp or a Loop whose body holds no fusable
\* triple, and a second scan of that body replaces nothing.
C26_SinglePassComplete ==
    (phase = "parse" /\ i = 1) =>
        LET node == Last(current_exprs) IN
        \/ node.op = "OffsetMakeZeroOp"
        \/ /\ node.op = "Loop"
           /\ ~HasFusableTriple(node.exprs)
           /\ ~fuse_scan(node.exprs, 1, FALSE).matched

\* One pass replaced two windows that stood side by side.
C26_Witness ==
    /\ phase = "parse"
    /\ i = 1
    /\ current_exprs = <<Loop(<<OffsetOp(1, 1), OffsetOp(1, -1), Output>>, FALSE)>>

\* -------------------------------------------- src/bin/trait_version.rs
\* The boxed structs of trait_version.rs are written as the records of the
\* Expr variants they stand for: IncStruct(n) as IncrementCount(n),
\* LoopStruct(v, b) as Loop(v, b), OffsetOpStruct(o, v) as OffsetOp(o, v) and
\* so on; a downcast_ref::<T>() that succeeds is a test of the op field.

\* The `for inst in instructions.iter()` scan of the `3..` arm.
RECURSIVE trait_scan_offset(_, _, _, _)
trait_scan_offset(es, k, offset, oc) ==
    IF k > Len(es) THEN [jump_out |-> FALSE, offset |-> offset, err |-> "none"]
    ELSE LET inst == es[k] IN
         IF inst.op = "MoveLeftCount"
         THEN IF oc /\ add_i32_overflows(offset, 0 - inst.n)
              THEN [jump_out |-> FALSE, offset |-> offset,
                    err |-> "attempt to subtract with overflow"]
              ELSE trait_scan_offset(es, k + 1, add_i32(offset, 0 - inst.n), oc)
         ELSE IF inst.op = "MoveRightCount"
         THEN IF oc /\ add_i32_overflows(offset, inst.n)
              THEN [jump_out |-> FALSE, offset |-> offset,
                    err |-> "attempt to add with overflow"]
              ELSE trait_scan_offset(es, k + 1, add_i32(offset, inst.n), oc)
         ELSE IF inst.op = "IncrementCount" \/ inst.op = "DecrementCount"
         THEN trait_scan_offset(es, k + 1, offset, oc)
         ELSE [jump_out |-> TRUE, offset |-> offset, err |-> "none"]

\* `should_replace` for the window a, b, c.
trait_should_replace(a, b, c) ==
    IF a.op = "MoveLeftCount" /\ b.op = "DecrementCount" /\ c.op = "MoveRightCount"
    THEN IF a.n = c.n THEN OffsetOp(0 - a.n, 0 - b.n) ELSE NoMatch
    ELSE IF a.op = "MoveLeftCount" /\ b.op = "IncrementCount" /\ c.op = "MoveRightCount"
    THEN IF a.n = c.n THEN OffsetOp(0 - a.n, b.n) ELSE NoMatch
    ELSE IF a.op = "MoveRightCount" /\ b.op = "DecrementCount" /\ c.op = "MoveLeftCount"
    THEN IF a.n = c.n THEN OffsetOp(a.n, 0 - b.n) ELSE NoMatch
    ELSE IF a.op = "MoveRightCount" /\ b.op = "IncrementCount" /\ c.op = "MoveLeftCount"
    THEN IF a.n = c.n THEN OffsetOp(a.n, b.n) ELSE NoMatch
    ELSE NoMatch

\* One `while i + 2 < instructions.len()` scan; k is the 1-based window start.
RECURSIVE trait_fuse_scan(_, _, _)
trait_fuse_scan(es, k, matched) ==
    IF k + 2 > Len(es) THEN [exprs |-> es, matched |-> matched]
    ELSE LET replacement == trait_should_replace(es[k], es[k + 1], es[k + 2]) IN
         IF replacement = NoMatch THEN trait_fuse_scan(es, k + 1, matched)
         ELSE trait_fuse_scan(SubSeq(es, 1, k - 1) \o <<replacement>>
                                  \o SubSeq(es, k + 3, Len(es)), k + 1, TRUE)

\* The `0` and `1` arms with an empty body taken for a Loop.
trait_optimize_single_empty_ok(es) ==
    IF Len(es) = 0 THEN Loop(es, FALSE)
    ELSE LET inst == es[1] IN
         IF inst.op = "DecrementCount" \/ inst.op = "IncrementCount" THEN MakeZero
         ELSE IF inst.op = "MoveLeftCount" \/ inst.op = "MoveRightCount" THEN JumpOut(inst)
         ELSE Exit("Infinite loop of IO operations detected")

\* The `0` and `1` arms.
trait_optimize_single(es) ==
    IF Len(es) = 0 THEN Exit("Empty loop detected")
    ELSE LET inst == es[1] IN
         IF inst.op = "DecrementCount" \/ inst.op = "IncrementCount" THEN MakeZero
         ELSE IF inst.op = "MoveLeftCount" \/ inst.op = "MoveRightCount" THEN JumpOut(inst)
         ELSE Exit("Infinite loop of IO operations detected")

\* The `2` arm.
trait_optimize_pair(es) ==
    LET first == es[1]
        second == es[2]
    IN  IF first.op = "DecrementCount" /\ second.op = "OffsetOp" /\ first.n = 1
        THEN OffsetMakeZeroOp(second.o, second.v)
        ELSE IF first.op = "OffsetOp" /\ second.op = "DecrementCount" /\ second.n = 1
        THEN OffsetMakeZeroOp(first.o, first.v)
        ELSE Loop(es, FALSE)

\* Interpreter::optimize of trait_version.rs.
RECURSIVE trait_optimize(_, _)
trait_optimize(es, oc) ==
    IF Len(es) <= 1 THEN trait_optimize_single(es)
    ELSE IF Len(es) = 2 THEN trait_optimize_pair(es)
    ELSE LET s == trait_scan_offset(es, 1, 0, oc) IN
         IF s.err # "none" THEN Exit(s.err)
         ELSE IF ~s.jump_out /\ s.offset = 0 THEN Loop(es, TRUE)
         ELSE LET r == trait_fuse_scan(es, 1, FALSE) IN
              IF r.matched THEN trait_optimize(r.exprs, oc) ELSE Loop(r.exprs, FALSE)

\* An arm of a counted token: `if let Some(last) = ..last_mut()`.
trait_fold(es, opname) ==
    IF es # <<>>
    THEN IF Last(es).op = opname
         THEN [es EXCEPT ![Len(es)] = [op |-> opname, n |-> Last(es).n + 1]]
         ELSE Append(es, [op |-> opname, n |-> 1])
    ELSE Append(es, [op |-> opname, n |-> 1])

\* The body of the `for (i, c)` loop of Interpreter::parse.
trait_parse_char(st, k, c, oc) ==
    LET tok == from_char(c)
        cur == st.current_exprs
    IN  CASE tok = "Plus" -> [st EXCEPT !.current_exprs = trait_fold(cur, "IncrementCount")]
          [] tok = "Minus" -> [st EXCEPT !.current_exprs = trait_fold(cur, "DecrementCount")]
          [] tok = "Right" -> [st EXCEPT !.current_exprs = trait_fold(cur, "MoveRightCount")]
          [] tok = "Left" -> [st EXCEPT !.current_exprs = trait_fold(cur, "MoveLeftCount")]
          [] tok = "Dot" -> [st EXCEPT !.current_exprs = Append(cur, Output)]
          [] tok = "Comma" -> [st EXCEPT !.current_exprs = Append(cur, Input)]
          [] tok = "BracketOpen" ->
                ParseState(Append(st.loop_stack, cur), <<>>, "none", -1)
          [] tok = "BracketClose" ->
                IF st.loop_stack = <<>>
                THEN [st EXCEPT !.err = "Unmatched closing bracket", !.index = k]
                ELSE LET optimized == trait_optimize(cur, oc) IN
                     IF optimized.op = "Exit"
                     THEN [st EXCEPT !.err = optimized.msg,
                                     !.loop_stack = Front(st.loop_stack),
                                     !.current_exprs = Last(st.loop_stack)]
                     ELSE ParseState(Front(st.loop_stack),
                                     Append(Last(st.loop_stack), optimized), "none", -1)
          [] OTHER -> st

\* The check after the loop.
trait_parse_end(st) ==
    IF st.loop_stack # <<>> THEN [st EXCEPT !.err = "Unmatched opening bracket"]
    ELSE st

\* The closure of LoopStruct::run_effect for a one_time loop; an element
\* that is none of the four structs is passed over.
trait_mul_effect(m, e, times, oc) ==
    IF e.op = "IncrementCount"
    THEN IF oc /\ mul_u32_overflows(e.n, times)
         THEN Panic("attempt to multiply with overflow", m)
         ELSE increment_cell(m, (e.n % CellMod) * times)
    ELSE IF e.op = "DecrementCount"
    THEN IF oc /\ mul_u32_overflows(e.n, times)
         THEN Panic("attempt to multiply with overflow", m)
         ELSE decrement_cell(m, (e.n % CellMod) * times)
    ELSE IF e.op = "MoveLeftCount" THEN move_pointer_left(m, e.n, oc)
    ELSE IF e.op = "MoveRightCount" THEN move_pointer_right(m, e.n, oc)
    ELSE Ok(m)

\* run_effect of IncStruct, DecStruct, MoveRightStruct, MoveLeftStruct,
\* MakeZeroStruct, OffsetOpStruct and OffsetMakeZeroOpStruct.
trait_simple_effect(m, e, oc) ==
    CASE e.op = "IncrementCount" -> increment_cell(m, e.n)
      [] e.op = "DecrementCount" -> decrement_cell(m, e.n)
      [] e.op = "MoveRightCount" -> move_pointer_right(m, e.n, oc)
      [] e.op = "MoveLeftCount" -> move_pointer_left(m, e.n, oc)
      [] e.op = "MakeZero" ->
            IF ~InBounds(m.pointer) THEN Panic("index out of bounds", m)
            ELSE Ok([m EXCEPT !.cells[m.pointer] = 0])
      [] e.op = "OffsetOp" -> add_assign_cell(m, m.pointer + e.o, e.v % CellMod, oc)
      [] e.op = "OffsetMakeZeroOp" ->
            IF ~InBounds(m.pointer) THEN Panic("index out of bounds", m)
            ELSE LET current_value == m.cells[m.pointer] IN
                 IF current_value = 0 THEN Ok(m)
                 ELSE add_assign_cell([m EXCEPT !.cells[m.pointer] = 0], m.pointer + e.o,
                                      ((e.v % CellMod) * current_value) % CellMod, oc)

\* What a fatal error is about.  The two programs word the empty body
\* differently ("Infinite loop :[]" and "Empty loop detected"), and both end
\* with exit status 1.
error_kind(msg) ==
    IF msg \in {"Infinite loop", "Empty loop detected"} THEN "empty loop body" ELSE msg

\* One iteration of the parse loop of trait_version.rs, as a relation
\* between a state and its successor (fatal errors compared by error_kind).
TraitParseChar ==
    /\ phase = "parse"
    /\ i < Len(source)
    /\ LET st == trait_parse_char(ParseState(loop_stack, current_exprs, "none", -1),
                                  i, source[i + 1], overflow_checks)
       IN  /\ loop_stack' = st.loop_stack
           /\ current_exprs' = st.current_exprs
           /\ error_kind(err') = error_kind(st.err)
           /\ err_index' = st.index
           /\ phase' = IF st.err = "none" THEN "parse" ELSE "failed"
    /\ i' = i + 1
    /\ UNCHANGED <<source, overflow_checks, exprs, memory, stdout, stdin_read, stack, start>>

\* The end of parse and, in run, Memory::new and the start of the walk.
TraitParseEnd ==
    /\ phase = "parse"
    /\ i = Len(source)
    /\ LET st == trait_parse_end(ParseState(loop_stack, current_exprs, "none", -1))
       IN  IF st.err # "none"
           THEN /\ phase' = "failed"
                /\ error_kind(err') = error_kind(st.err)
                /\ UNCHANGED <<exprs, memory, stack>>
           ELSE /\ phase' = "exec"
                /\ exprs' = current_exprs
                /\ memory' = MemoryNew
                /\ stack' = <<Frame(current_exprs, "top", 0)>>
                /\ err' = "none"
    /\ UNCHANGED <<source, overflow_checks, i, loop_stack, current_exprs,
                   stdout, stdin_read, start, err_index>>

TraitExecSimple ==
    /\ AtInstr
    /\ Top.kind # "mul"
    /\ IsSimple(Cur)
    /\ Apply(trait_simple_effect(memory, Cur, overflow_checks), Advance(stack))
    /\ UNCHANGED exec_frame

TraitExecMul ==
    /\ AtInstr
    /\ Top.kind = "mul"
    /\ Apply(trait_mul_effect(memory, Cur, Top.times, overflow_checks), Advance(stack))
    /\ UNCHANGED exec_frame

\* LoopStruct::run_effect: the test of its `while`, or of the one_time guard.
TraitExecLoop ==
    /\ AtInstr
    /\ Top.kind # "mul"
    /\ Cur.op = "Loop"
    /\ IF ~InBounds(memory.pointer) THEN Fail("index out of bounds")
       ELSE /\ stack' =
                 IF memory.cells[memory.pointer] # 0
                 THEN Append(stack, Frame(Cur.exprs, IF Cur.one_time THEN "mul" ELSE "loop",
                                          IF Cur.one_time THEN memory.cells[memory.pointer]
                                          ELSE 0))
                 ELSE Advance(stack)
            /\ UNCHANGED <<phase, err, memory, stdout, stdin_read>>
    /\ UNCHANGED exec_frame

\* JumpOutStruct::run_effect: one test of its `while`; an inner instruction
\* that is no move leaves the pointer where it is.
TraitExecJumpOut ==
    /\ AtInstr
    /\ Top.kind # "mul"
    /\ Cur.op = "JumpOut"
    /\ IF ~InBounds(memory.pointer) THEN Fail("index out of bounds")
       ELSE IF memory.cells[memory.pointer] # 0
       THEN Apply(IF Cur.e.op = "MoveLeftCount"
                  THEN move_pointer_left(memory, Cur.e.n, overflow_checks)
                  ELSE IF Cur.e.op = "MoveRightCount"
                  THEN move_pointer_right(memory, Cur.e.n, overflow_checks)
                  ELSE Ok(memory),
                  stack)
       ELSE /\ stack' = Advance(stack)
            /\ UNCHANGED <<phase, err, memory, stdout, stdin_read>>
    /\ UNCHANGED exec_frame

\* A step of trait_version.rs.  Output, input, the end of a body and the
\* final flush are the Memory calls and the for_each of lib.rs.
TraitNext ==
    \/ TraitParseChar
    \/ TraitParseEnd
    \/ TraitExecSimple
    \/ TraitExecMul
    \/ ExecOutput
    \/ ExecInput
    \/ TraitExecLoop
    \/ TraitExecJumpOut
    \/ ExecEndBody
    \/ Finish

\* C27: the two dispatch strategies are equivalent.  From every state, the
\* step lib.rs takes on a source, a build and an input is the step
\* trait_version.rs takes: the same acceptance or the same kind of fatal
\* error, the same tree, and the same tape, pointer and output.
C27_DispatchStrategiesEquivalent == [][TraitNext]_vars

\* `[]` is rejected for its empty body by both; `+[>+<[-].]` was parsed by both
\* to the same tree and run to the end.
C27_Witness ==
    \/ /\ source = <<"[", "]">>
       /\ phase = "failed"
       /\ err = "Infinite loop"
       /\ trait_optimize(<<>>, overflow_checks) = Exit("Empty loop detected")
    \/ /\ source = <<"+", "[", ">", "+", "<", "[", "-", "]", ".", "]">>
       /\ phase = "done"
       /\ trait_parse_char(ParseState(<<<<IncrementCount(1)>>>>,
                                      <<MoveRightCount(1), IncrementCount(1),
                                        MoveLeftCount(1), MakeZero, Output>>, "none", -1),
                           9, "]", overflow_checks).current_exprs = exprs

\* --------------------------------------------------------------- claim C28
\* No OffsetMakeZeroOp in the tree under e.
RECURSIVE NoOffsetMakeZeroOp(_)
NoOffsetMakeZeroOp(e) ==
    /\ e.op # "OffsetMakeZeroOp"
    /\ e.op = "Loop" => \A j \in 1..Len(e.exprs) : NoOffsetMakeZeroOp(e.exprs[j])

\* The fusion scan would take the body es to a unit Decrement and an OffsetOp.
FusesToScatter(es) ==
    LET r == fuse_scan(es, 1, FALSE) IN
    Len(r.exprs) = 2 /\ optimize_pair(r.exprs).op = "OffsetMakeZeroOp"

\* C28: in the tagged-variant pipeline parse never emits an OffsetMakeZeroOp.
\* Every body the fusion scan could reduce to a unit Decrement and one
\* OffsetOp has at least three nodes, only arithmetic and move nodes and a
\* net move of zero, so optimize returns it as a one_time Loop before the
\* fusion scan runs.
C28_NoOffsetMakeZeroFromParse ==
    /\ \A j \in 1..Len(current_exprs) : NoOffsetMakeZeroOp(current_exprs[j])
    /\ \A k \in 1..Len(loop_stack) : \A j \in 1..Len(loop_stack[k]) :
          NoOffsetMakeZeroOp(loop_stack[k][j])
    /\ \A j \in 1..Len(exprs) : NoOffsetMakeZeroOp(exprs[j])
    /\ (phase = "parse" /\ i = 0 /\ FusesToScatter(current_exprs)) =>
          /\ Len(current_exprs) >= 3
          /\ \A j \in 1..Len(current_exprs) :
                IsArith(current_exprs[j]) \/ IsMove(current_exprs[j])
          /\ MoveSumZero(current_exprs)
          /\ optimize(current_exprs, overflow_checks) = Loop(current_exprs, TRUE)

\* The scope over `->+<` was closed as a one_time Loop.
C28_Witness ==
    /\ phase = "parse"
    /\ i = 1
    /\ current_exprs = <<Loop(<<DecrementCount(1), MoveRightCount(1),
                               IncrementCount(1), MoveLeftCount(1)>>, TRUE)>>

\* --------------------------------------------------------------- claim C29
IsCounted(e) == IsArith(e) \/ IsMove(e)

\* The sequence es, and every sequence below it, is well formed.
RECURSIVE WellFormed(_)
WellFormed(es) ==
    /\ \A j \in 1..(Len(es) - 1) : IsCounted(es[j]) => es[j].op # es[j + 1].op
    /\ \A j \in 1..Len(es) :
          LET e == es[j] IN
          /\ IsCounted(e) => e.n >= 1
          /\ e.op = "Loop" => e.exprs # <<>> /\ WellFormed(e.exprs)
          /\ e.op = "JumpOut" => IsMove(e.e) /\ e.e.n >= 1
          /\ e.op \in {"OffsetOp", "OffsetMakeZeroOp"} => e.o # 0

\* C29: the trees parse builds are well formed: every counted node has a
\* count of at least 1, no two adjacent nodes of one sequence are the same
\* arithmetic or move variant, every Loop body is non-empty, every JumpOut
\* holds exactly one MoveLeft or MoveRight, and every OffsetOp and
\* OffsetMakeZeroOp has a nonzero offset.
C29_TreeWellFormed ==
    /\ WellFormed(current_exprs)
    /\ \A k \in 1..Len(loop_stack) : WellFormed(loop_stack[k])
    /\ WellFormed(exprs)

\* The tree of `+[>+<[-].]` is being walked: a Loop with an OffsetOp in it.
C29_Witness ==
    /\ phase = "exec"
    /\ exprs = <<IncrementCount(1), Loop(<<OffsetOp(1, 1), MakeZero, Output>>, FALSE)>>

\* ------------------------------------------ the build, pass by pass
\* SpecBuild is parse with optimize unfolded into the iterations of its
\* `loop`: phase "optimize" holds between two iterations, with the body
\* being optimized in current_exprs and the scope it goes back to still on
\* top of loop_stack.

\* One iteration of parse's loop over the characters; a `]` that closes a
\* scope enters optimize.
BuildChar ==
    /\ phase = "parse"
    /\ i < Len(source)
    /\ IF from_char(source[i + 1]) = "BracketClose" /\ loop_stack # <<>>
       THEN /\ phase' = "optimize"
            /\ UNCHANGED <<loop_stack, current_exprs, err, err_index>>
       ELSE LET st == parse_char(ParseState(loop_stack, current_exprs, "none", -1),
                                 i, source[i + 1], overflow_checks)
            IN  /\ loop_stack' = st.loop_stack
                /\ current_exprs' = st.current_exprs
                /\ err' = st.err
                /\ err_index' = st.index
                /\ phase' = IF st.err = "none" THEN "parse" ELSE "failed"
    /\ i' = i + 1
    /\ UNCHANGED <<source, overflow_checks, exprs, memory, stdout, stdin_read, stack, start>>

\* What one iteration of optimize's `loop` comes to: a node, an Exit, or
\* `continue` with the body the scan left.
optimize_pass(es, oc) ==
    IF Len(es) <= 1 THEN optimize_single(es)
    ELSE IF Len(es) = 2 THEN optimize_pair(es)
    ELSE LET s == scan_offset(es, 1, 0, oc) IN
         IF s.err # "none" THEN Exit(s.err)
         ELSE IF ~s.jump_out /\ s.offset = 0 THEN Loop(es, TRUE)
         ELSE LET r == fuse_scan(es, 1, FALSE) IN
              IF r.matched THEN [op |-> "continue", exprs |-> r.exprs]
              ELSE Loop(r.exprs, FALSE)

\* OptimizePass whose `continue` goes on with the body as it was before the scan.
OptimizePass_keeps_body ==
    /\ phase = "optimize"
    /\ LET res == optimize_pass(current_exprs, overflow_checks) IN
       IF res.op = "continue"
       THEN UNCHANGED <<phase, loop_stack, current_exprs, err>>
       ELSE IF res.op = "Exit"
       THEN /\ phase' = "failed"
            /\ err' = res.msg
            /\ loop_stack' = Front(loop_stack)
            /\ current_exprs' = Last(loop_stack)
       ELSE /\ phase' = "parse"
            /\ err' = "none"
            /\ loop_stack' = Front(loop_stack)
            /\ current_exprs' = Append(Last(loop_stack), res)
    /\ UNCHANGED <<source, overflow_checks, i, exprs, memory, stdout, stdin_read,
                   stack, start, err_index>>

\* One iteration of optimize's `loop`, and the end of the BracketClose arm
\* when the iteration breaks out of it.
OptimizePass ==
    /\ phase = "optimize"
    /\ LET res == optimize_pass(current_exprs, overflow_checks) IN
       IF res.op = "continue"
       THEN /\ current_exprs' = res.exprs
            /\ UNCHANGED <<phase, loop_stack, err>>
       ELSE IF res.op = "Exit"
       THEN /\ phase' = "failed"
            /\ err' = res.msg
            /\ loop_stack' = Front(loop_stack)
            /\ current_exprs' = Last(loop_stack)
       ELSE /\ phase' = "parse"
            /\ err' = "none"
            /\ loop_stack' = Front(loop_stack)
            /\ current_exprs' = Append(Last(loop_stack), res)
    /\ UNCHANGED <<source, overflow_checks, i, exprs, memory, stdout, stdin_read,
                   stack, start, err_index>>

NextBuild == BuildChar \/ OptimizePass \/ ParseEnd

\* The build is a sequential program: it takes its next step.
SpecBuild == Init /\ [][NextBuild]_vars /\ WF_vars(NextBuild)

\* An iteration of optimize that continues has shortened the body, and the
\* node an iteration breaks with is the node of optimize.
OptimizeStep ==
    phase = "optimize" =>
        IF phase' = "optimize"
        THEN /\ Len(current_exprs') < Len(current_exprs)
             /\ optimize(current_exprs', overflow_checks)
                    = optimize(current_exprs, overflow_checks)
        ELSE IF phase' = "parse"
        THEN Last(current_exprs') = optimize(current_exprs, overflow_checks)
        ELSE err' = optimize(current_exprs, overflow_checks).msg

\* C30: building always terminates.  parse, with every call of the
\* optimizer and its repeat-until-no-change fusion loop, finishes with a
\* tree or with a fatal structural error, and each fusion pass that makes a
\* replacement leaves the body strictly shorter.
C30_BuildTerminates ==
    /\ [][OptimizeStep]_vars
    /\ [](phase = "failed" => err \in StructuralErrors)
    /\ <>(phase \in {"exec", "failed"})

\* optimize is in its second iteration, on a body a pass has shortened.
C30_Witness ==
    /\ phase = "optimize"
    /\ \E j \in 1..Len(current_exprs) : current_exprs[j].op = "OffsetOp"

====
